---- MODULE Spec2Model ----
(***************************************************************************)
(* Inbound message pipeline of the Feishu channel plugin:                   *)
(* parseFeishuMessageEvent -> policy gate -> history buffer -> media ->     *)
(* envelope -> agent dispatch -> history clear (src/src/bot.ts), with the   *)
(* access-policy helpers of src/src/policy.ts, and the reply dispatcher of   *)
(* src/src/reply-dispatcher.ts with its typing reaction (typing.ts).         *)
(*                                                                          *)
(* Strings are sequences of one-character strings so that trim() and        *)
(* toLowerCase() are computed, not assumed.  An optional value (`x?: T`) is *)
(* a sequence of length 0 (undefined) or 1 (defined).                       *)
(***************************************************************************)
EXTENDS Integers, Sequences, FiniteSets, TLC

VARIABLES
    cfg,            \* cfg.channels.feishu of the running connection
    botOpenId,      \* module-level `botOpenId` of the monitor (optional)
    monitor,        \* monitorFeishuProvider: where it stands, what the bot id probe did
    warnings,       \* what security.collectWarnings returned for cfg (optional)
    hasHistories,   \* whether the caller passes a chatHistories map
    chatHistories,  \* Map<chatId, HistoryEntry[]> created by monitorWebSocket
    tasks,          \* one handleFeishuMessage invocation per received event
    budget,         \* events the transport may still deliver
    inbound,        \* the events the platform may deliver on this connection
    bufLog,         \* history: buffer operations in the order they ran
    allowIn,        \* arguments of a resolveFeishuAllowlistMatch call
    allowOut,       \* its result
    mentionIn,      \* arguments of a checkBotMentioned call
    mentionOut,     \* its result
    stripIn,        \* arguments of a stripBotMention call
    stripOut,       \* its result, then the result of stripping that again
    renderIn,       \* renderMode and text of a fragment handed to deliver
    renderOut,      \* how deliver renders it
    replyParams,    \* createFeishuReplyDispatcher: renderMode of cfg, replyToMessageId
    fragments,      \* the reply payload texts the agent emits, in order
    rpc,            \* handleFeishuMessage around `await dispatchReplyFromConfig`
    typingState,    \* `typingState` of the dispatcher closure (null is Undef)
    reactions,      \* platform: ids of the Typing reactions attached to the message
    created,        \* platform: number of reactions ever created
    starts,         \* `start` calls awaiting addTypingIndicator
    startCalls,     \* onReplyStart invocations so far
    restarts,       \* whether the host repeats the reply-start signal during a reply
    stops,          \* `stop` calls awaiting removeTypingIndicator, with their state
    drained,        \* the host's delivery queue has emptied and idle is not yet signalled
    delivered,      \* number of fragments handed to deliver
    delivering,     \* the deliver call in progress: its chunks and position
    sent,           \* history: the send calls that returned, in order
    failed,         \* history: the fragments reported to onError
    detachFailed,   \* history: some delete call of a reaction was refused
    mediaMsg,       \* message_type and content of the message whose media is resolved
    media,          \* the resolveFeishuMediaList call of that message and what follows it
    turnIn,         \* one direct text message, its configuration and the agent's reply
    turnOut         \* what handleFeishuMessage and the dispatcher made of it

vars == <<cfg, botOpenId, monitor, warnings, hasHistories, chatHistories, tasks, budget, inbound, bufLog,
          allowIn, allowOut, mentionIn, mentionOut, stripIn, stripOut, renderIn, renderOut,
          replyParams, fragments, restarts, rpc, typingState, reactions, created, starts,
          startCalls, stops, drained, delivered, delivering, sent, failed, detachFailed,
          mediaMsg, media, turnIn, turnOut>>

\* state of the inbound pipeline and of the policy function under test
pipelineVars == <<cfg, botOpenId, monitor, warnings, hasHistories, chatHistories, tasks, budget, inbound,
                  bufLog, allowIn, allowOut>>

\* state of the typing indicator of one reply dispatcher
typingVars == <<typingState, reactions, created, starts, startCalls, stops, detachFailed>>

\* state of the deliveries of one reply dispatcher
deliveryVars == <<delivered, delivering, drained, sent, failed>>

\* state of one reply dispatcher
replyVars == <<replyParams, fragments, restarts, rpc, typingVars, deliveryVars>>

\* state of the stages of handleFeishuMessage that are exercised alone
sideVars == <<mediaMsg, media, turnIn, turnOut>>

\* arguments and results of the functions of bot.ts that are exercised alone
unitVars == <<mentionIn, mentionOut, stripIn, stripOut, renderIn, renderOut>>

-----------------------------------------------------------------------------
(* Bounds *)

MaxEvents == 2
MaxGateEvents == 1
MaxList == 2
MaxHistoryLimit == 1
MaxText == 4
MaxPieces == 3
MaxFragments == 2
MaxStarts == 2
TextChunkLimit == 2
MaxParagraphs == 1

-----------------------------------------------------------------------------
(* Strings *)

Undef == <<>>
Some(v) == <<v>>
IsDef(o) == Len(o) > 0
Val(o) == o[1]

\* x ?? d
OrElse(o, d) == IF IsDef(o) THEN Val(o) ELSE d

LowerOf ==
    [c \in {"a", "A", "b", "B", "l", "L", "u", "U", "g", "G", "1", "2", "*", " ", "p"} |->
        CASE c = "A" -> "a"
          [] c = "B" -> "b"
          [] c = "L" -> "l"
          [] c = "U" -> "u"
          [] c = "G" -> "g"
          [] OTHER -> c]

\* String.prototype.toLowerCase
ToLower(s) == [i \in 1..Len(s) |-> LowerOf[s[i]]]

\* white space, as \s and trim() see it
IsSpace(c) == c \in {" ", "\n"}

RECURSIVE TrimStart(_)
TrimStart(s) ==
    IF s # <<>> /\ IsSpace(Head(s)) THEN TrimStart(Tail(s)) ELSE s

RECURSIVE TrimEnd(_)
TrimEnd(s) ==
    IF s # <<>> /\ IsSpace(s[Len(s)]) THEN TrimEnd(SubSeq(s, 1, Len(s) - 1)) ELSE s

\* String.prototype.trim
Trim(s) == TrimEnd(TrimStart(s))

\* Array.prototype.includes
Includes(list, x) == \E i \in 1..Len(list) : list[i] = x

\* a JavaScript string is truthy iff it is non-empty
Truthy(s) == s # <<>>

-----------------------------------------------------------------------------
(* src/src/policy.ts *)

NormalizeEntry(entry) == ToLower(Trim(entry))

\* allowFrom.map(...).filter(Boolean)
NormalizeAllowFrom(allowFrom) ==
    SelectSeq([i \in 1..Len(allowFrom) |-> NormalizeEntry(allowFrom[i])], Truthy)

NoMatch == [allowed |-> FALSE, matchKey |-> Undef, matchSource |-> "none"]

\* resolveFeishuAllowlistMatch deciding by the first entry, in list order,
\* that matches the sender in any way
RECURSIVE FirstHit(_, _, _)
FirstHit(normalized, id, name) ==
    IF normalized = <<>> THEN NoMatch
    ELSE IF Head(normalized) = <<"*">>
        THEN [allowed |-> TRUE, matchKey |-> Some(<<"*">>), matchSource |-> "wildcard"]
    ELSE IF Head(normalized) = id
        THEN [allowed |-> TRUE, matchKey |-> Some(id), matchSource |-> "id"]
    ELSE IF IsDef(name) /\ Truthy(Val(name)) /\ Head(normalized) = Val(name)
        THEN [allowed |-> TRUE, matchKey |-> name, matchSource |-> "name"]
    ELSE FirstHit(Tail(normalized), id, name)

resolveFeishuAllowlistMatchFirstHit(allowFrom, senderId, senderName) ==
    FirstHit(NormalizeAllowFrom(allowFrom), ToLower(senderId),
             IF IsDef(senderName) THEN Some(ToLower(Val(senderName))) ELSE Undef)

resolveFeishuAllowlistMatch(allowFrom, senderId, senderName) ==
    LET normalized == NormalizeAllowFrom(allowFrom)
        id == ToLower(senderId)
        name == IF IsDef(senderName) THEN Some(ToLower(Val(senderName))) ELSE Undef
    IN  IF Len(normalized) = 0 THEN NoMatch
        ELSE IF Includes(normalized, <<"*">>)
            THEN [allowed |-> TRUE, matchKey |-> Some(<<"*">>), matchSource |-> "wildcard"]
        ELSE IF Includes(normalized, id)
            THEN [allowed |-> TRUE, matchKey |-> Some(id), matchSource |-> "id"]
        ELSE IF IsDef(name) /\ Truthy(Val(name)) /\ Includes(normalized, Val(name))
            THEN [allowed |-> TRUE, matchKey |-> name, matchSource |-> "name"]
        ELSE NoMatch

\* the first key of cfg.groups, in insertion order, whose lower-cased form
\* equals the lower-cased group id (Object.keys(groups).find)
RECURSIVE FindLowered(_, _)
FindLowered(groups, lowered) ==
    IF groups = <<>> THEN Undef
    ELSE IF ToLower(Head(groups).key) = lowered THEN Some(Head(groups))
    ELSE FindLowered(Tail(groups), lowered)

RECURSIVE FindDirect(_, _)
FindDirect(groups, groupId) ==
    IF groups = <<>> THEN Undef
    ELSE IF Head(groups).key = groupId THEN Some(Head(groups))
    ELSE FindDirect(Tail(groups), groupId)

resolveFeishuGroupConfig(c, chatId) ==
    LET groupId == Trim(chatId)
        direct == FindDirect(c.groups, groupId)
    IN  IF ~Truthy(groupId) THEN Undef
        ELSE IF IsDef(direct) THEN direct
        ELSE FindLowered(c.groups, ToLower(groupId))

\* isFeishuGroupAllowed without the allow-list check
isFeishuGroupAllowedNoListCheck(groupPolicy, allowFrom, senderId, senderName) ==
    groupPolicy # "disabled"

\* isFeishuGroupAllowed without the early return for "open"
isFeishuGroupAllowedOpenChecksList(groupPolicy, allowFrom, senderId, senderName) ==
    IF groupPolicy = "disabled" THEN FALSE
    ELSE resolveFeishuAllowlistMatch(allowFrom, senderId, senderName).allowed

isFeishuGroupAllowed(groupPolicy, allowFrom, senderId, senderName) ==
    IF groupPolicy = "disabled" THEN FALSE
    ELSE IF groupPolicy = "open" THEN TRUE
    ELSE resolveFeishuAllowlistMatch(allowFrom, senderId, senderName).allowed

\* resolveFeishuReplyPolicy with the global setting taking precedence
resolveFeishuReplyPolicyGlobalFirst(isDirectMessage, globalConfig, groupConfig) ==
    IF isDirectMessage THEN FALSE
    ELSE OrElse(globalConfig.requireMention,
                OrElse(IF IsDef(groupConfig) THEN Val(groupConfig).requireMention ELSE Undef,
                       TRUE))

resolveFeishuReplyPolicy(isDirectMessage, globalConfig, groupConfig) ==
    IF isDirectMessage THEN FALSE
    ELSE OrElse(IF IsDef(groupConfig) THEN Val(groupConfig).requireMention ELSE Undef,
                OrElse(globalConfig.requireMention, TRUE))

-----------------------------------------------------------------------------
(* Platform data *)

g1 == <<"g", "1">>
g2 == <<"g", "2">>
p1 == <<"p", "1">>
GroupChats == {g1, g2}
Chats == GroupChats \cup {p1}

idA == <<"u", "a">>
idB == <<"u", "b">>
idBot == <<"b", "b">>

\* senders as the platform knows them; the event carries only the ids
Senders ==
    { [open_id |-> idA, name |-> <<"A", "l">>],
      [open_id |-> idB, name |-> <<"B">>] }

\* event.message.mentions, reduced to each mention's id.open_id
MentionLists == { <<>>, <<idBot>>, <<idA>> }

\* mentions[].name of a mention list whose names are plain words
PlainNames(m) == [i \in 1..Len(m) |-> <<"A">>]

\* FeishuMessageEvent (src/src/bot.ts:21-50); message_id is the arrival
\* number; mention_names holds mentions[].name, in the order of mentions
Events ==
    { [chat_id |-> c,
       chat_type |-> IF c \in GroupChats THEN "group" ELSE "p2p",
       open_id |-> s.open_id,
       displayName |-> s.name,
       mentions |-> m,
       mention_names |-> PlainNames(m)] : c \in Chats, s \in Senders, m \in MentionLists }

\* events that mention a user whose display name is not the source of a
\* regular expression: "C++" in a group, "(" in a direct chat
FaultEvents ==
    { [chat_id |-> g1, chat_type |-> "group", open_id |-> idB, displayName |-> <<"B">>,
       mentions |-> <<idA>>, mention_names |-> << <<"C", "+", "+">> >>],
      [chat_id |-> p1, chat_type |-> "p2p", open_id |-> idB, displayName |-> <<"B">>,
       mentions |-> <<idA>>, mention_names |-> << <<"(">> >>] }

AllEvents == Events \cup FaultEvents

\* the events of the runs that exercise the history buffer: two senders in
\* one group, a second group and a direct chat; mentions name the bot or nobody
CoreEvents ==
    { e \in Events :
        /\ e.mentions \in {<<>>, <<idBot>>}
        /\ e.chat_id # g1 => e.open_id = idA
        /\ e.chat_id = p1 => e.mentions = <<>> }

-----------------------------------------------------------------------------
(* src/src/bot.ts: normalization *)

\* variant: a mention counts only when the bot's identifier is known
checkBotMentionedKnownOnly(mentions, bot) ==
    /\ IsDef(bot)
    /\ \E i \in 1..Len(mentions) : mentions[i] = Val(bot)

checkBotMentioned(mentions, bot) ==
    IF Len(mentions) = 0 THEN FALSE
    ELSE IF ~IsDef(bot) \/ ~Truthy(Val(bot)) THEN Len(mentions) > 0
    ELSE \E i \in 1..Len(mentions) : mentions[i] = Val(bot)

\* text matches the literal pattern pat at index i
MatchesAt(text, i, pat) ==
    /\ i + Len(pat) - 1 <= Len(text)
    /\ \A k \in 1..Len(pat) : text[i + k - 1] = pat[k]

\* the first index from i on that holds no white space (greedy \s*)
RECURSIVE SkipSpaces(_, _)
SkipSpaces(text, i) ==
    IF i <= Len(text) /\ IsSpace(text[i]) THEN SkipSpaces(text, i + 1) ELSE i

\* text.replace(new RegExp(pat + (eatSpaces ? "\\s*" : ""), "g"), "") from
\* index i on: one left-to-right pass over the original text, each match
\* consumed before the scan goes on, the text that results never re-scanned.
\* pat is a literal here: it holds no character with a meaning in a RegExp.
RECURSIVE ReplaceAllFrom(_, _, _, _)
ReplaceAllFrom(text, i, pat, eatSpaces) ==
    IF i > Len(text) THEN <<>>
    ELSE IF Len(pat) > 0 /\ MatchesAt(text, i, pat)
    THEN ReplaceAllFrom(text,
                        IF eatSpaces THEN SkipSpaces(text, i + Len(pat)) ELSE i + Len(pat),
                        pat, eatSpaces)
    ELSE <<text[i]>> \o ReplaceAllFrom(text, i + 1, pat, eatSpaces)

\* lines 90-93: the body of the loop, for one mention
StripOne(result, mention) ==
    LET named == Trim(ReplaceAllFrom(result, 1, <<"@">> \o mention.name, TRUE))
    IN  Trim(ReplaceAllFrom(named, 1, mention.key, FALSE))

RECURSIVE StripFrom(_, _, _)
StripFrom(result, mentions, i) ==
    IF i > Len(mentions) THEN result
    ELSE StripFrom(StripOne(result, mentions[i]), mentions, i + 1)

\* lines 87-95; mentions is the optional list of { name, key } of the event
stripBotMention(text, mentions) ==
    IF ~IsDef(mentions) \/ Len(Val(mentions)) = 0 THEN text
    ELSE StripFrom(text, Val(mentions), 1)

\* the nesting depth of groups after the first n characters of a pattern
RECURSIVE GroupDepth(_, _)
GroupDepth(source, n) ==
    IF n = 0 THEN 0
    ELSE GroupDepth(source, n - 1)
         + (IF source[n] = "(" THEN 1 ELSE IF source[n] = ")" THEN -1 ELSE 0)

\* `new RegExp(source)` returns: every group is closed, none is closed
\* before it opens, and no "+" or "*" repeats a quantifier or an open group
RegExpCompiles(source) ==
    /\ GroupDepth(source, Len(source)) = 0
    /\ \A n \in 1..Len(source) : GroupDepth(source, n) >= 0
    /\ \A n \in 1..Len(source) :
          source[n] \in {"+", "*"} => (n > 1 /\ source[n - 1] \notin {"+", "*", "("})

\* lines 90-91, reached from line 353: stripBotMention builds a RegExp from
\* every mention name, and the SyntaxError of one that does not compile
\* leaves parseFeishuMessageEvent before the context exists
NormalizationThrows(event) ==
    \E i \in 1..Len(event.mention_names) :
        ~RegExpCompiles(<<"@">> \o event.mention_names[i] \o <<"\\", "s", "*">>)

\* FeishuMessageContext.  The text of message m is abstracted to m itself
\* (every message has its own text); senderName is never assigned.
parseFeishuMessageEvent(event, messageId, bot) ==
    [chatId |-> event.chat_id,
     messageId |-> messageId,
     senderOpenId |-> event.open_id,
     senderName |-> Undef,
     chatType |-> event.chat_type,
     mentionedBot |-> checkBotMentioned(event.mentions, bot),
     content |-> messageId]

-----------------------------------------------------------------------------
(* src/src/bot.ts: envelopes *)

\* GroupFrom naming the conversation only
GroupFromChatOnly(chatId, senderOpenId) == chatId

\* lines 509 and 532: the `from` of an envelope in a group, the template
\* literal `${chatId}:${sender}`
GroupFrom(chatId, senderOpenId) == chatId \o <<":">> \o senderOpenId

\* lines 456-463: the peer the agent route, and with it the session, is
\* resolved for
RoutePeer(ctx) ==
    [kind |-> IF ctx.chatType = "group" THEN "group" ELSE "dm",
     id |-> IF ctx.chatType = "group" THEN ctx.chatId ELSE ctx.senderOpenId]

\* core.channel.reply.formatAgentEnvelope, as a record of its arguments
formatAgentEnvelope(from, speaker, text, messageId) ==
    [from |-> from, speaker |-> speaker, text |-> text, messageId |-> messageId]

\* lines 528-536: the formatEntry callback handed to the history helper
formatEntry(chatId, entry) ==
    formatAgentEnvelope(GroupFrom(chatId, entry.sender), Some(entry.sender), entry.body,
                        entry.messageId)

-----------------------------------------------------------------------------
(* History helpers of the plugin SDK (spec section 4.3) *)

DEFAULT_GROUP_HISTORY_LIMIT == 50

RECURSIVE EvictOldest(_, _)
EvictOldest(entries, limit) ==
    IF Len(entries) > limit THEN EvictOldest(Tail(entries), limit) ELSE entries

recordPendingHistoryEntryIfEnabled(historyMap, historyKey, limit, entry) ==
    IF limit <= 0 THEN historyMap
    ELSE [historyMap EXCEPT ![historyKey] = EvictOldest(Append(@, entry), limit)]

buildPendingHistoryContextFromMap(historyMap, historyKey, limit, currentMessage) ==
    IF limit <= 0 THEN <<currentMessage>>
    ELSE [i \in 1..Len(historyMap[historyKey]) |-> formatEntry(historyKey, historyMap[historyKey][i])]
             \o <<currentMessage>>

clearHistoryEntriesIfEnabled(historyMap, historyKey, limit) ==
    IF limit <= 0 THEN historyMap
    ELSE [historyMap EXCEPT ![historyKey] = <<>>]

-----------------------------------------------------------------------------
(* src/src/bot.ts: handleFeishuMessage *)

Max(a, b) == IF a >= b THEN a ELSE b

\* historyLimitOf without the configured values
historyLimitDefaultOnly(c) == DEFAULT_GROUP_HISTORY_LIMIT

\* historyLimitOf with a floor of one entry
historyLimitAtLeastOne(c) ==
    Max(1, OrElse(c.historyLimit, OrElse(c.messagesHistoryLimit, DEFAULT_GROUP_HISTORY_LIMIT)))

historyLimitOf(c) ==
    Max(0, OrElse(c.historyLimit, OrElse(c.messagesHistoryLimit, DEFAULT_GROUP_HISTORY_LIMIT)))

\* GroupGate sending every admitted message to the buffer
GroupGateBuffersAdmitted(c, ctx) ==
    LET groupPolicy == IF c.groupPolicy = "unset" THEN "open" ELSE c.groupPolicy
        groupConfig == resolveFeishuGroupConfig(c, ctx.chatId)
        senderAllowFrom ==
            OrElse(IF IsDef(groupConfig) THEN Val(groupConfig).allowFrom ELSE Undef,
                   OrElse(c.groupAllowFrom, <<>>))
    IN  IF ~isFeishuGroupAllowed(groupPolicy, senderAllowFrom, ctx.senderOpenId,
                                 ctx.senderName)
        THEN "drop"
        ELSE "buffer"

\* GroupGate falling back to the global list when the group's list is empty
GroupGateEmptyListFallsBack(c, ctx) ==
    LET groupPolicy == IF c.groupPolicy = "unset" THEN "open" ELSE c.groupPolicy
        groupConfig == resolveFeishuGroupConfig(c, ctx.chatId)
        own == IF IsDef(groupConfig) THEN Val(groupConfig).allowFrom ELSE Undef
        senderAllowFrom == IF IsDef(own) /\ Val(own) # <<>> THEN Val(own)
                           ELSE OrElse(c.groupAllowFrom, <<>>)
        requireMention == resolveFeishuReplyPolicy(FALSE, c, groupConfig)
    IN  IF ~isFeishuGroupAllowed(groupPolicy, senderAllowFrom, ctx.senderOpenId,
                                 ctx.senderName)
        THEN "drop"
        ELSE IF requireMention /\ ~ctx.mentionedBot THEN "buffer"
        ELSE "accept"

\* lines 391-431: the group branch of the gate
GroupGate(c, ctx) ==
    LET groupPolicy == IF c.groupPolicy = "unset" THEN "open" ELSE c.groupPolicy
        groupAllowFrom == OrElse(c.groupAllowFrom, <<>>)
        groupConfig == resolveFeishuGroupConfig(c, ctx.chatId)
        senderAllowFrom ==
            OrElse(IF IsDef(groupConfig) THEN Val(groupConfig).allowFrom ELSE Undef,
                   groupAllowFrom)
        allowed == isFeishuGroupAllowed(groupPolicy, senderAllowFrom,
                                        ctx.senderOpenId, ctx.senderName)
        requireMention == resolveFeishuReplyPolicy(FALSE, c, groupConfig)
    IN  IF ~allowed THEN "drop"
        ELSE IF requireMention /\ ~ctx.mentionedBot THEN "buffer"
        ELSE "accept"

\* DmGate checking the allow-list for every policy but "open"
DmGateListUnlessOpen(c, ctx) ==
    IF (c.dmPolicy # "open")
       /\ ~resolveFeishuAllowlistMatch(OrElse(c.allowFrom, <<>>), ctx.senderOpenId, Undef).allowed
    THEN "drop"
    ELSE "accept"

\* lines 432-446: the direct-message branch of the gate
DmGate(c, ctx) ==
    LET dmPolicy == IF c.dmPolicy = "unset" THEN "pairing" ELSE c.dmPolicy
        allowFrom == OrElse(c.allowFrom, <<>>)
    IN  IF dmPolicy = "allowlist"
           /\ ~resolveFeishuAllowlistMatch(allowFrom, ctx.senderOpenId, Undef).allowed
        THEN "drop"
        ELSE "accept"

\* lines 391-446: "accept", "drop" (silent) or "buffer" (record and stop)
PolicyGate(c, ctx) ==
    IF ctx.chatType = "group" THEN GroupGate(c, ctx) ELSE DmGate(c, ctx)

\* GateReturns without the `return` of line 430
GateReturnsDropOnly(outcome) == outcome = "drop"

\* the `return` statements of lines 406, 430 and 443
GateReturns(outcome) == outcome \in {"drop", "buffer"}

\* lines 422-427
HistoryEntryOf(ctx) ==
    [sender |-> ctx.senderOpenId, body |-> ctx.content, messageId |-> ctx.messageId]

\* CombinedBody without the pending history
CombinedBodyCurrentOnly(ctx, histories, withHistories, limit) ==
    <<formatAgentEnvelope(IF ctx.chatType = "group" THEN GroupFrom(ctx.chatId, ctx.senderOpenId)
                          ELSE ctx.senderOpenId,
                          Undef, ctx.content, ctx.messageId)>>

\* CombinedBody with the current message ahead of the pending history
CombinedBodyCurrentFirst(ctx, histories, withHistories, limit) ==
    LET isGroup == ctx.chatType = "group"
        body == formatAgentEnvelope(IF isGroup THEN GroupFrom(ctx.chatId, ctx.senderOpenId)
                                    ELSE ctx.senderOpenId,
                                    Undef, ctx.content, ctx.messageId)
        built == buildPendingHistoryContextFromMap(histories, ctx.chatId, limit, body)
    IN  IF isGroup /\ withHistories
        THEN <<body>> \o SubSeq(built, 1, Len(built) - 1)
        ELSE <<body>>

\* CombinedBody reading the pending history of one fixed conversation
CombinedBodySharedKey(ctx, histories, withHistories, limit) ==
    LET isGroup == ctx.chatType = "group"
        body == formatAgentEnvelope(IF isGroup THEN GroupFrom(ctx.chatId, ctx.senderOpenId)
                                    ELSE ctx.senderOpenId,
                                    Undef, ctx.content, ctx.messageId)
    IN  IF isGroup /\ withHistories
        THEN buildPendingHistoryContextFromMap(histories, g1, limit, body)
        ELSE <<body>>

\* lines 509-538
CombinedBody(ctx, histories, withHistories, limit) ==
    LET isGroup == ctx.chatType = "group"
        envelopeFrom == IF isGroup THEN GroupFrom(ctx.chatId, ctx.senderOpenId)
                        ELSE ctx.senderOpenId
        body == formatAgentEnvelope(envelopeFrom, Undef, ctx.content, ctx.messageId)
    IN  IF isGroup /\ withHistories
        THEN buildPendingHistoryContextFromMap(histories, ctx.chatId, limit, body)
        ELSE <<body>>

MessageIds(entries) == [i \in 1..Len(entries) |-> entries[i].messageId]

Logged(op, ctx, ids) == [op |-> op, chat |-> ctx.chatId, msg |-> ctx.messageId, entries |-> ids]

CtxOf(t) == parseFeishuMessageEvent(tasks[t].event, t, botOpenId)

\* MessageHandlerCatch letting the exception through to the event dispatcher
MessageHandlerRethrows(thrown) == "escaped"

\* lines 831-842 (monitor): the catch around `await handleFeishuMessage`
\* logs what was thrown and returns
MessageHandlerCatch(thrown) == "swallowed"

\* src/unnamed/part_001 lines 133-141: the warnings of security.collectWarnings
collectWarnings(c) ==
    LET groupPolicy == IF c.groupPolicy # "unset" THEN c.groupPolicy
                       ELSE IF c.defaultsGroupPolicy # "unset" THEN c.defaultsGroupPolicy
                       ELSE "allowlist"
    IN  IF groupPolicy # "open" THEN <<>> ELSE <<"openGroups">>

\* the host asks the channel for its security warnings
CollectWarnings ==
    /\ ~IsDef(warnings)
    /\ warnings' = Some(collectWarnings(cfg))
    /\ UNCHANGED <<cfg, botOpenId, monitor, hasHistories, chatHistories, tasks, budget,
                   inbound, bufLog, allowIn, allowOut>>
    /\ UNCHANGED <<unitVars, replyVars, sideVars>>

\* fetchBotOpenId trusting the probe result whether or not it is ok
fetchBotOpenIdIgnoresOk(probe) == IF probe = "threw" THEN Undef ELSE Some(idBot)

\* lines 772-779 (monitor): the bot id after probeFeishu resolved to an
\* ok result, resolved to a result that is not ok, or threw
fetchBotOpenId(probe) == IF probe = "ok" THEN Some(idBot) ELSE Undef

\* lines 796-805 and 810-892 (monitor): the awaited fetchBotOpenId
\* settles, its result is assigned to botOpenId, and monitorWebSocket
\* registers the handlers and starts the client
ProbeSettled ==
    /\ monitor.pc = "probing"
    /\ \E probe \in {"ok", "notOk", "threw"} :
         /\ botOpenId' = fetchBotOpenId(probe)
         /\ monitor' = [pc |-> "listening", probe |-> probe]
    /\ UNCHANGED <<cfg, warnings, hasHistories, chatHistories, tasks, budget, inbound,
                   bufLog, allowIn, allowOut>>
    /\ UNCHANGED <<unitVars, replyVars, sideVars>>

\* RecordsToHistory without the test for the history map
RecordsToHistoryUnguarded(outcome, withHistories) == outcome = "buffer"

\* lines 415-417: the record call is made for a message that lacks the
\* required mention, when a history map was supplied
RecordsToHistory(outcome, withHistories) == outcome = "buffer" /\ withHistories

\* lines 381-484: from the call to the first await; an exception of the
\* normalization leaves handleFeishuMessage at line 381
Receive(event) ==
    /\ monitor.pc = "listening"
    /\ budget > 0
    /\ event \in inbound
    /\ budget' = budget - 1
    /\ IF NormalizationThrows(event)
       THEN /\ tasks' = Append(tasks, [event |-> event, outcome |-> "none",
                                       pc |-> MessageHandlerCatch("threw"),
                                       calls |-> {}, body |-> <<>>])
            /\ UNCHANGED <<chatHistories, bufLog>>
       ELSE
       LET t == Len(tasks) + 1
           ctx == parseFeishuMessageEvent(event, t, botOpenId)
           outcome == PolicyGate(cfg, ctx)
           limit == historyLimitOf(cfg)
           records == RecordsToHistory(outcome, hasHistories)
           task == [event |-> event, outcome |-> outcome, pc |-> "returned",
                    calls |-> {}, body |-> <<>>]
       IN  /\ chatHistories' =
                 IF records
                 THEN recordPendingHistoryEntryIfEnabled(chatHistories, ctx.chatId, limit,
                                                         HistoryEntryOf(ctx))
                 ELSE chatHistories
           /\ bufLog' =
                 IF records
                 THEN Append(bufLog, Logged("record", ctx, MessageIds(chatHistories'[ctx.chatId])))
                 ELSE bufLog
           /\ IF GateReturns(outcome)
              THEN tasks' = Append(tasks, task)
              ELSE \E ok \in BOOLEAN :
                     tasks' = Append(tasks,
                         IF ok
                         THEN [task EXCEPT !.pc = "media",
                                           !.calls = {"route", "systemEvent", "media"}]
                         ELSE [task EXCEPT !.pc = "failed"])
    /\ UNCHANGED <<cfg, botOpenId, monitor, warnings, hasHistories, inbound, allowIn, allowOut>>
    /\ UNCHANGED <<unitVars, replyVars, sideVars>>

\* lines 485-578: media (and quoted message) resolved, up to the dispatch await
MediaResolved(t) ==
    /\ tasks[t].pc = "media"
    /\ LET ctx == CtxOf(t)
           limit == historyLimitOf(cfg)
           body == CombinedBody(ctx, chatHistories, hasHistories, limit)
           reads == ctx.chatType = "group" /\ hasHistories
       IN  \E stage \in {"throwEnvelope", "throwDispatcher", "ok"} :
             /\ tasks' = [tasks EXCEPT ![t] =
                   CASE stage = "throwEnvelope" -> [@ EXCEPT !.pc = "failed"]
                     [] stage = "throwDispatcher" ->
                          [@ EXCEPT !.pc = "failed", !.body = body,
                                    !.calls = @ \cup {"envelope"}]
                     [] OTHER ->
                          [@ EXCEPT !.pc = "dispatch", !.body = body,
                                    !.calls = @ \cup {"envelope", "dispatch"}]]
             /\ bufLog' =
                   IF reads /\ stage # "throwEnvelope"
                   THEN Append(bufLog, Logged("build", ctx,
                               [i \in 1..(Len(body) - 1) |-> body[i].messageId]))
                   ELSE bufLog
    /\ UNCHANGED <<cfg, botOpenId, monitor, warnings, hasHistories, chatHistories, budget, inbound, allowIn, allowOut>>
    /\ UNCHANGED <<unitVars, replyVars, sideVars>>

\* the agent replies while handleFeishuMessage awaits dispatchReplyFromConfig:
\* onReplyStart (typing reaction) and deliver (send) of the reply dispatcher
AgentReply(t) ==
    /\ tasks[t].pc = "dispatch"
    /\ "send" \notin tasks[t].calls
    /\ tasks' = [tasks EXCEPT ![t].calls = @ \cup {"typing", "send"}]
    /\ UNCHANGED <<cfg, botOpenId, monitor, warnings, hasHistories, chatHistories, budget, inbound, bufLog,
                   allowIn, allowOut>>
    /\ UNCHANGED <<unitVars, replyVars, sideVars>>

\* ClearsAfter as if the clear sat in a `finally`
ClearsAfterAlways(result) == TRUE

\* whether control reaches the clear of lines 582-588
ClearsAfter(result) == result = "returned"

\* lines 573-593: dispatchReplyFromConfig settles ("returned" or "threw")
DispatchSettled(t, result) ==
    /\ tasks[t].pc = "dispatch"
    /\ LET ctx == CtxOf(t)
           limit == historyLimitOf(cfg)
           clears == ClearsAfter(result) /\ ctx.chatType = "group" /\ hasHistories
       IN  /\ chatHistories' =
                 IF clears
                 THEN clearHistoryEntriesIfEnabled(chatHistories, ctx.chatId, limit)
                 ELSE chatHistories
           /\ bufLog' =
                 IF clears
                 THEN Append(bufLog, Logged("clear", ctx,
                             IF limit <= 0 THEN <<>>
                             ELSE MessageIds(chatHistories[ctx.chatId])))
                 ELSE bufLog
           /\ tasks' = [tasks EXCEPT ![t].pc = IF result = "returned" THEN "done" ELSE "failed",
                                     ![t].calls = IF result = "returned"
                                                  THEN @ \cup {"markDispatchIdle"} ELSE @]
    /\ UNCHANGED <<cfg, botOpenId, monitor, warnings, hasHistories, budget, inbound, allowIn, allowOut>>
    /\ UNCHANGED <<unitVars, replyVars, sideVars>>

DispatchReturned(t) == DispatchSettled(t, "returned")

DispatchThrew(t) == DispatchSettled(t, "threw")

-----------------------------------------------------------------------------
(* src/src/policy.ts as a function under test *)

CallAllowlistMatch ==
    /\ ~IsDef(allowOut)
    /\ allowOut' = Some(resolveFeishuAllowlistMatch(allowIn.allowFrom, allowIn.senderId,
                                                    allowIn.senderName))
    /\ UNCHANGED <<cfg, botOpenId, monitor, warnings, hasHistories, chatHistories, tasks, budget, inbound,
                   bufLog, allowIn>>
    /\ UNCHANGED <<unitVars, replyVars, sideVars>>

-----------------------------------------------------------------------------
(* src/src/reply-dispatcher.ts: the render decision of deliver *)

\* the least index from i on at which the literal pat begins (0 when none)
RECURSIVE FindFrom(_, _, _)
FindFrom(text, pat, i) ==
    IF i + Len(pat) - 1 > Len(text) THEN 0
    ELSE IF MatchesAt(text, i, pat) THEN i
    ELSE FindFrom(text, pat, i + 1)

\* the backquote character, written "~" because no string here can hold it
Backquote == "~"

Fence == <<Backquote, Backquote, Backquote>>

\* line 24: /```[\s\S]*?```/ finds the leftmost fence and then the next one
HasFencedBlock(text) ==
    LET open == FindFrom(text, Fence, 1)
    IN  open > 0 /\ FindFrom(text, Fence, open + 3) > 0

IsLineBreak(c) == c = "\n"

\* [-:| ]
IsSeparatorChar(c) == c \in {"-", ":", "|", " "}

\* the first index from i on that holds no line break ([\r\n]+ is greedy and
\* the `|` after it is no line break)
RECURSIVE SkipLineBreaks(_, _)
SkipLineBreaks(text, i) ==
    IF i <= Len(text) /\ IsLineBreak(text[i]) THEN SkipLineBreaks(text, i + 1) ELSE i

\* \|[-:| ]+\| from index k: a `|`, then separator characters, one of which,
\* not the first, is the closing `|`
RECURSIVE SeparatorClosesFrom(_, _)
SeparatorClosesFrom(text, l) ==
    /\ l <= Len(text)
    /\ IsSeparatorChar(text[l])
    /\ \/ text[l] = "|"
       \/ SeparatorClosesFrom(text, l + 1)

SeparatorAt(text, k) ==
    /\ k + 2 <= Len(text)
    /\ text[k] = "|"
    /\ IsSeparatorChar(text[k + 1])
    /\ SeparatorClosesFrom(text, k + 2)

\* .+\|[\r\n]+ and the separator, the header's opening `|` being at i, j the
\* index the `.+` has reached: `.` takes any character but a line break
RECURSIVE HeaderFrom(_, _)
HeaderFrom(text, j) ==
    /\ j <= Len(text)
    /\ ~IsLineBreak(text[j - 1])
    /\ \/ /\ text[j] = "|"
          /\ SkipLineBreaks(text, j + 1) > j + 1
          /\ SeparatorAt(text, SkipLineBreaks(text, j + 1))
       \/ HeaderFrom(text, j + 1)

\* line 26: /\|.+\|[\r\n]+\|[-:| ]+\|/ tried at every index
RECURSIVE HasTableFrom(_, _)
HasTableFrom(text, i) ==
    /\ i <= Len(text)
    /\ \/ text[i] = "|" /\ HeaderFrom(text, i + 2)
       \/ HasTableFrom(text, i + 1)

\* lines 22-28
shouldUseCard(text) == HasFencedBlock(text) \/ HasTableFrom(text, 1)

\* useCard with `auto` never choosing a card
useCardOnlyWhenForced(renderMode, text) == OrElse(renderMode, "auto") = "card"

\* lines 108-112; renderMode is feishuCfg?.renderMode
useCard(renderMode, text) ==
    LET mode == OrElse(renderMode, "auto")
    IN  mode = "card" \/ (mode = "auto" /\ shouldUseCard(text))

\* DeliverKind without the early return for a blank text
DeliverKindNeverSkips(renderMode, text) ==
    IF useCard(renderMode, text) THEN "card" ELSE "text"

\* lines 100-114: what deliver does with a fragment
DeliverKind(renderMode, text) ==
    IF Trim(text) = <<>> THEN "skip"
    ELSE IF useCard(renderMode, text) THEN "card"
    ELSE "text"

-----------------------------------------------------------------------------
(* src/src/bot.ts: checkBotMentioned and stripBotMention as functions under test *)

CallCheckBotMentioned ==
    /\ ~IsDef(mentionOut)
    /\ mentionOut' = Some(checkBotMentioned(mentionIn.mentions, mentionIn.botOpenId))
    /\ UNCHANGED <<cfg, botOpenId, monitor, warnings, hasHistories, chatHistories, tasks, budget, inbound,
                   bufLog, allowIn, allowOut, mentionIn, stripIn, stripOut, renderIn, renderOut>>
    /\ UNCHANGED <<replyVars, sideVars>>

\* strips the text, and then strips what the first call returned
CallStripBotMention ==
    /\ Len(stripOut) < 2
    /\ stripOut' = Append(stripOut,
                          stripBotMention(IF Len(stripOut) = 0 THEN stripIn.text
                                          ELSE stripOut[1],
                                          stripIn.mentions))
    /\ UNCHANGED <<cfg, botOpenId, monitor, warnings, hasHistories, chatHistories, tasks, budget, inbound,
                   bufLog, allowIn, allowOut, mentionIn, mentionOut, stripIn, renderIn, renderOut>>
    /\ UNCHANGED <<replyVars, sideVars>>

\* the render decision as a function under test
CallDeliverKind ==
    /\ ~IsDef(renderOut)
    /\ renderOut' = Some(DeliverKind(renderIn.renderMode, renderIn.text))
    /\ UNCHANGED <<cfg, botOpenId, monitor, warnings, hasHistories, chatHistories, tasks, budget, inbound,
                   bufLog, allowIn, allowOut, mentionIn, mentionOut, stripIn, stripOut,
                   renderIn>>
    /\ UNCHANGED <<replyVars, sideVars>>

-----------------------------------------------------------------------------
(* src/unnamed/part_002 (typing.ts): the reaction that stands for "typing" *)

\* lines 18-45: the TypingIndicatorState that addTypingIndicator resolves
\* to; outcome is what the create call did, reactionId the id it assigned
addTypingIndicator(outcome, messageId, reactionId) ==
    [messageId |-> messageId,
     reactionId |-> IF outcome = "created" THEN Some(reactionId) ELSE Undef]

\* lines 50-73: whether removeTypingIndicator issues the delete call
removeTypingIndicator(state) == IsDef(state.reactionId)

-----------------------------------------------------------------------------
(* Text helpers of the plugin SDK (spec section 4.6) *)

\* hard length cut: chunks of at most limit characters, in order
RECURSIVE chunkTextWithMode(_, _)
chunkTextWithMode(text, limit) ==
    IF Len(text) = 0 THEN <<>>
    ELSE IF Len(text) <= limit THEN <<text>>
    ELSE <<SubSeq(text, 1, limit)>> \o chunkTextWithMode(SubSeq(text, limit + 1, Len(text)), limit)

\* fallback rendering of a markdown table as plain text: the pipes of a
\* text that holds a table become "+"
convertMarkdownTables(text) ==
    IF HasTableFrom(text, 1)
    THEN [i \in 1..Len(text) |-> IF text[i] = "|" THEN "+" ELSE text[i]]
    ELSE text

-----------------------------------------------------------------------------
(* src/src/reply-dispatcher.ts: createFeishuReplyDispatcher *)

\* inFlight with one more call for state s; calls in flight are told apart
\* by their state only, so they are kept ordered by reaction id
RECURSIVE Inserted(_, _)
Inserted(inFlight, s) ==
    IF inFlight = <<>> \/ OrElse(s.reactionId, 0) <= OrElse(Head(inFlight).reactionId, 0)
    THEN <<s>> \o inFlight
    ELSE <<Head(inFlight)>> \o Inserted(Tail(inFlight), s)

\* lines 57-59: `stop` called; with a typingState it awaits its removal
StopBegins(inFlight, state) ==
    IF ~IsDef(state) THEN inFlight ELSE Inserted(inFlight, Val(state))

\* onStartError as if it let the rejection of `start` end the dispatch
onStartErrorRethrows(pc) == "threw"

\* lines 63-70: a rejected `start` is logged, the dispatch goes on
onStartError(pc) == pc

\* onError as if it only logged
onErrorLogsOnly(inFlight, state) == inFlight

\* lines 141-144: onError logs and calls onIdle, which calls `stop`
onError(inFlight, state) == StopBegins(inFlight, state)

\* SendOf with the reply-to id on the first chunk only
SendOfFirstChunkReplies(kind, fragment, k, chunk, replyToMessageId) ==
    [kind |-> kind, fragment |-> fragment, chunk |-> k, text |-> chunk,
     replyTo |-> IF k = 1 THEN replyToMessageId ELSE Undef]

\* lines 119-124 and 132-137: the send call for chunk number k of a fragment
SendOf(kind, fragment, k, chunk, replyToMessageId) ==
    [kind |-> kind, fragment |-> fragment, chunk |-> k, text |-> chunk,
     replyTo |-> replyToMessageId]

\* ChunksOf cutting the text first and converting each chunk
ChunksOfConvertsChunks(kind, text) ==
    LET chunks == chunkTextWithMode(text, TextChunkLimit)
    IN  IF kind = "card" THEN chunks
        ELSE [k \in 1..Len(chunks) |-> convertMarkdownTables(chunks[k])]

\* lines 116 and 128-129: the chunks deliver sends for a fragment
ChunksOf(kind, text) ==
    chunkTextWithMode(IF kind = "card" THEN text ELSE convertMarkdownTables(text),
                      TextChunkLimit)

\* line 97, lines 52-54: the host signals the start of a reply
OnReplyStart ==
    /\ rpc = "dispatching"
    /\ startCalls < (IF restarts THEN MaxStarts ELSE 1)
    /\ startCalls' = startCalls + 1
    /\ starts' = IF IsDef(replyParams.replyToMessageId) THEN starts + 1 ELSE starts
    /\ UNCHANGED <<typingState, reactions, created, stops, detachFailed>>
    /\ UNCHANGED <<sideVars, pipelineVars, unitVars, replyParams, fragments, restarts, rpc, deliveryVars>>

\* lines 54-55 after the await: the create call of addTypingIndicator was
\* made ("created"), was refused ("rejected"), or the client could not be
\* built and `start` rejects ("threw")
AddSettled ==
    /\ starts > 0
    /\ starts' = starts - 1
    /\ \E outcome \in {"created", "rejected", "threw"} :
         /\ created' = IF outcome = "created" THEN created + 1 ELSE created
         /\ reactions' = IF outcome = "created" THEN reactions \cup {created + 1}
                         ELSE reactions
         /\ typingState' =
               IF outcome = "threw" THEN typingState
               ELSE Some(addTypingIndicator(outcome, Val(replyParams.replyToMessageId),
                                            created + 1))
         /\ rpc' = IF outcome = "threw" THEN onStartError(rpc) ELSE rpc
    /\ UNCHANGED <<startCalls, stops, detachFailed>>
    /\ UNCHANGED <<sideVars, pipelineVars, unitVars, replyParams, fragments, restarts, deliveryVars>>

\* line 145: the host signals idle once its delivery queue has drained
OnIdle ==
    /\ rpc = "dispatching"
    /\ ~IsDef(delivering)
    /\ drained
    /\ drained' = FALSE
    /\ stops' = StopBegins(stops, typingState)
    /\ UNCHANGED <<typingState, reactions, created, starts, startCalls, detachFailed>>
    /\ UNCHANGED <<delivered, delivering, sent, failed>>
    /\ UNCHANGED <<sideVars, pipelineVars, unitVars, replyParams, fragments, restarts, rpc>>

\* lines 59-61 after the await: removeTypingIndicator has returned for the
\* i-th `stop` in flight, its delete call made or refused
RemoveSettled(i) ==
    /\ i \in 1..Len(stops)
    /\ \E ok \in BOOLEAN :
         LET state == stops[i]
             calls == removeTypingIndicator(state)
         IN  /\ calls \/ ok
             /\ reactions' = IF calls /\ ok THEN reactions \ {Val(state.reactionId)}
                             ELSE reactions
             /\ detachFailed' = (detachFailed \/ ~ok)
    /\ typingState' = Undef
    /\ stops' = SubSeq(stops, 1, i - 1) \o SubSeq(stops, i + 1, Len(stops))
    /\ UNCHANGED <<created, starts, startCalls>>
    /\ UNCHANGED <<sideVars, pipelineVars, unitVars, replyParams, fragments, restarts, rpc, deliveryVars>>

\* lines 98-117 and 128-130: the host hands the next fragment to deliver
DeliverBegin ==
    /\ rpc = "dispatching"
    /\ ~IsDef(delivering)
    /\ delivered < Len(fragments)
    /\ delivered' = delivered + 1
    /\ LET text == fragments[delivered + 1]
           kind == DeliverKind(replyParams.renderMode, text)
       IN  delivering' =
               IF kind = "skip" THEN Undef
               ELSE Some([fragment |-> delivered + 1, kind |-> kind,
                          chunks |-> ChunksOf(kind, text), k |-> 1])
    /\ drained' = ~IsDef(delivering')
    /\ UNCHANGED <<sent, failed>>
    /\ UNCHANGED <<sideVars, pipelineVars, unitVars, replyParams, fragments, restarts, rpc, typingVars>>

\* lines 118-125 and 131-138: the awaited send of the next chunk returned
SendChunkOk ==
    /\ IsDef(delivering)
    /\ LET d == Val(delivering)
       IN  /\ sent' = Append(sent, SendOf(d.kind, d.fragment, d.k, d.chunks[d.k],
                                          replyParams.replyToMessageId))
           /\ delivering' = IF d.k = Len(d.chunks) THEN Undef
                            ELSE Some([d EXCEPT !.k = d.k + 1])
    /\ drained' = ~IsDef(delivering')
    /\ UNCHANGED <<delivered, failed>>
    /\ UNCHANGED <<sideVars, pipelineVars, unitVars, replyParams, fragments, restarts, rpc, typingVars>>

\* the awaited send of the next chunk threw: deliver rejects, the loop is
\* left, and the host reports the fragment to onError (lines 141-144)
SendChunkFailed ==
    /\ IsDef(delivering)
    /\ failed' = failed \cup {Val(delivering).fragment}
    /\ delivering' = Undef
    /\ stops' = onError(stops, typingState)
    /\ drained' = TRUE
    /\ UNCHANGED <<delivered, sent>>
    /\ UNCHANGED <<typingState, reactions, created, starts, startCalls, detachFailed>>
    /\ UNCHANGED <<sideVars, pipelineVars, unitVars, replyParams, fragments, restarts, rpc>>

\* src/src/bot.ts lines 573-580: dispatchReplyFromConfig returned, every
\* fragment handled; markDispatchIdle signals idle
ReplyDispatchReturned ==
    /\ rpc = "dispatching"
    /\ ~IsDef(delivering)
    /\ delivered = Len(fragments)
    /\ rpc' = "returned"
    /\ stops' = StopBegins(stops, typingState)
    /\ UNCHANGED <<typingState, reactions, created, starts, startCalls, detachFailed>>
    /\ UNCHANGED <<sideVars, pipelineVars, unitVars, replyParams, fragments, restarts, deliveryVars>>

\* src/src/bot.ts lines 591-593: dispatchReplyFromConfig threw; the catch
\* logs and does not call markDispatchIdle
ReplyDispatchThrew ==
    /\ rpc = "dispatching"
    /\ ~IsDef(delivering)
    /\ rpc' = "threw"
    /\ UNCHANGED <<sideVars, pipelineVars, unitVars, replyParams, fragments, restarts, typingVars, deliveryVars>>

-----------------------------------------------------------------------------
(* src/src/bot.ts: media resolution *)

\* The content of a message is JSON text.  It is kept as what JSON.parse
\* makes of it: whether it parses, the image_key and file_key fields (<<>>
\* when absent or empty), and for a post the image_key of its img elements
\* in document order.

\* lines 100-128
parseMediaKeys(content, messageType) ==
    LET none == [imageKey |-> <<>>, fileKey |-> <<>>]
    IN  IF ~content.parses THEN none
        ELSE CASE messageType = "image" -> [none EXCEPT !.imageKey = content.image_key]
               [] messageType \in {"file", "audio", "sticker"} ->
                      [none EXCEPT !.fileKey = content.file_key]
               [] messageType = "video" ->
                      [imageKey |-> content.image_key, fileKey |-> content.file_key]
               [] OTHER -> none

\* lines 134-172, the imageKeys of the result
parsePostImageKeys(content) ==
    IF ~content.parses THEN <<>> ELSE SelectSeq(content.images, Truthy)

\* lines 177-192
inferPlaceholder(messageType) ==
    CASE messageType = "image" -> "<media:image>"
      [] messageType = "file" -> "<media:document>"
      [] messageType = "audio" -> "<media:audio>"
      [] messageType = "video" -> "<media:video>"
      [] messageType = "sticker" -> "<media:sticker>"
      [] OTHER -> "<media:document>"

\* lines 209-212
IsMediaType(messageType) ==
    messageType \in {"image", "file", "audio", "video", "sticker", "post"}

\* lines 218-234 and 264-287: the download calls resolveFeishuMediaList is
\* going to make, in order
DownloadsOf(messageType, content) ==
    IF ~IsMediaType(messageType) THEN <<>>
    ELSE IF messageType = "post"
    THEN LET imageKeys == parsePostImageKeys(content)
         IN  [i \in 1..Len(imageKeys) |->
                 [fileKey |-> imageKeys[i], type |-> "image", placeholder |-> "<media:image>"]]
    ELSE LET mediaKeys == parseMediaKeys(content, messageType)
             fileKey == IF Truthy(mediaKeys.imageKey) THEN mediaKeys.imageKey
                        ELSE mediaKeys.fileKey
         IN  IF ~Truthy(mediaKeys.imageKey) /\ ~Truthy(mediaKeys.fileKey) THEN <<>>
             ELSE <<[fileKey |-> fileKey,
                     type |-> IF messageType = "image" THEN "image" ELSE "file",
                     placeholder |-> inferPlaceholder(messageType)]>>

\* what one item's download, MIME detection and persist can do; an item is
\* saved with the content type the download reported, with the one that was
\* detected, or with none (saved.contentType undefined)
ItemOutcomes ==
    {"downloadThrew", "detectThrew", "saveThrew", "savedAsReported", "savedAsDetected",
     "savedUntyped"}

\* lines 236-252 and 288-310: the entry pushed for an item that was saved;
\* the artifact is named after the key whose bytes it holds
SavedEntry(item, outcome) ==
    [path |-> item.fileKey,
     contentType |-> CASE outcome = "savedAsReported" -> Some("reported")
                       [] outcome = "savedAsDetected" -> Some("detected")
                       [] OTHER -> Undef,
     placeholder |-> item.placeholder]

\* AfterFailure giving up on the items that follow
AfterFailureAbortsRest(todo) == <<>>

\* lines 255-257 and 313-315: the catch around one item logs, and the loop
\* goes on with the items that follow
AfterFailure(todo) == Tail(todo)

\* lines 324-345; filter(Boolean) drops the content types that are undefined
buildFeishuMediaPayload(mediaList) ==
    LET mediaPaths == [i \in 1..Len(mediaList) |-> mediaList[i].path]
        typed == SelectSeq(mediaList, LAMBDA media_ : IsDef(media_.contentType))
        mediaTypes == [i \in 1..Len(typed) |-> Val(typed[i].contentType)]
    IN  [MediaPath |-> IF mediaList = <<>> THEN Undef ELSE Some(mediaList[1].path),
         MediaType |-> IF mediaList = <<>> THEN Undef ELSE mediaList[1].contentType,
         MediaUrl |-> IF mediaList = <<>> THEN Undef ELSE Some(mediaList[1].path),
         MediaPaths |-> IF Len(mediaPaths) > 0 THEN Some(mediaPaths) ELSE Undef,
         MediaUrls |-> IF Len(mediaPaths) > 0 THEN Some(mediaPaths) ELSE Undef,
         MediaTypes |-> IF Len(mediaTypes) > 0 THEN Some(mediaTypes) ELSE Undef]

\* lines 477-484 and 206-224, 264-281: handleFeishuMessage calls
\* resolveFeishuMediaList, which returns at once or starts its first download
ResolveBegin ==
    /\ media.pc = "called"
    /\ LET todo == DownloadsOf(mediaMsg.message_type, mediaMsg.content)
       IN  media' = [media EXCEPT !.pc = IF todo = <<>> THEN "returned" ELSE "resolving",
                                  !.todo = todo]
    /\ UNCHANGED <<mediaMsg, turnIn, turnOut, pipelineVars, unitVars, replyVars>>

\* lines 226-258 and 269-317: one item is downloaded, classified and saved,
\* or fails at one of the three; after the last item the list is returned
ItemSettled ==
    /\ media.pc = "resolving"
    /\ \E outcome \in ItemOutcomes :
         LET item == Head(media.todo)
             ok == outcome \in {"savedAsReported", "savedAsDetected", "savedUntyped"}
             todo == IF ok THEN Tail(media.todo) ELSE AfterFailure(media.todo)
         IN  media' = [media EXCEPT
                 !.todo = todo,
                 !.out = IF ok THEN Append(@, SavedEntry(item, outcome)) ELSE @,
                 !.settled = Append(@, [fileKey |-> item.fileKey, type |-> item.type,
                                        ok |-> ok]),
                 !.pc = IF todo = <<>> THEN "returned" ELSE "resolving"]
    /\ UNCHANGED <<mediaMsg, turnIn, turnOut, pipelineVars, unitVars, replyVars>>

\* lines 485-578: the media payload is built from the list and the handler
\* goes on to the agent dispatch
DispatchAfterMedia ==
    /\ media.pc = "returned"
    /\ media' = [media EXCEPT !.pc = "dispatched",
                              !.payload = buildFeishuMediaPayload(media.out)]
    /\ UNCHANGED <<mediaMsg, turnIn, turnOut, pipelineVars, unitVars, replyVars>>

-----------------------------------------------------------------------------
(* Configurations and initial states *)

\* nothing is configured; defaultsGroupPolicy is channels.defaults.groupPolicy
DefaultCfg ==
    [groupPolicy |-> "unset", groupAllowFrom |-> Undef, groups |-> <<>>,
     requireMention |-> Undef, dmPolicy |-> "unset", allowFrom |-> Undef,
     historyLimit |-> Undef, messagesHistoryLimit |-> Undef,
     defaultsGroupPolicy |-> "unset"]

\* allow-list entries as an operator may write them
AllowEntries ==
    { <<"*">>, <<" ", "*">>, <<"U", "A">>, <<"u", "b">>, <<"a", "l">>, <<"A", "L", " ">>,
      <<"b">>, <<" ">> }

AllowLists == UNION { [1..n -> AllowEntries] : n \in 0..MaxList }

\* the allow-lists used in whole configurations
CfgAllowLists == { <<>>, <<<<"*">>>>, <<<<"U", "A">>>>, <<<<"a", "l">>>>, <<<<"u", "b">>, <<" ">>>> }

OptOf(S) == {Undef} \cup { Some(v) : v \in S }

GroupEntries ==
    { <<>>,
      <<[key |-> <<"G", "1">>, allowFrom |-> Undef, requireMention |-> Some(FALSE)]>>,
      <<[key |-> g1, allowFrom |-> Some(<<>>), requireMention |-> Undef]>>,
      <<[key |-> g1, allowFrom |-> Some(<<idB>>), requireMention |-> Some(TRUE)]>> }

HistoryConfigs ==
    { [DefaultCfg EXCEPT !.historyLimit = h] : h \in OptOf(0..MaxHistoryLimit) }
    \cup { [DefaultCfg EXCEPT !.messagesHistoryLimit = Some(1)] }

GroupGateConfigs ==
    { [DefaultCfg EXCEPT !.groupPolicy = gp, !.groupAllowFrom = ga, !.groups = gs,
                         !.requireMention = rm, !.historyLimit = Some(1)] :
        gp \in {"unset", "open", "allowlist", "disabled"},
        ga \in OptOf(CfgAllowLists),
        gs \in GroupEntries,
        rm \in OptOf(BOOLEAN) }

DmGateConfigs ==
    { [DefaultCfg EXCEPT !.dmPolicy = dp, !.allowFrom = af] :
        dp \in {"unset", "open", "pairing", "allowlist"},
        af \in OptOf(CfgAllowLists) }

NoCall == [allowFrom |-> <<>>, senderId |-> <<>>, senderName |-> Undef]

NoMentionCall == [mentions |-> <<>>, botOpenId |-> Undef]

NoStripCall == [text |-> <<>>, mentions |-> Undef]

\* no function is exercised alone
AllowIdle == allowIn = NoCall /\ allowOut = Undef

MentionIdle == mentionIn = NoMentionCall /\ mentionOut = Undef

StripIdle == stripIn = NoStripCall /\ stripOut = <<>>

NoMediaMsg ==
    [message_type |-> "text",
     content |-> [parses |-> FALSE, image_key |-> <<>>, file_key |-> <<>>, images |-> <<>>]]

\* resolveFeishuMediaList has not been called
MediaIdle == mediaMsg = NoMediaMsg /\ media = [pc |-> "idle", todo |-> <<>>, out |-> <<>>, settled |-> <<>>,
                 payload |-> buildFeishuMediaPayload(<<>>)]

MaxImages == 2

k1 == <<"k", "1">>
k2 == <<"k", "2">>
f1 == <<"f", "1">>

\* message contents: a post with up to MaxImages embedded images, and the
\* contents of the other message types with or without their keys
MediaMessages ==
    { [message_type |-> "post",
       content |-> [parses |-> p, image_key |-> <<>>, file_key |-> <<>>, images |-> im]] :
         p \in BOOLEAN, im \in UNION { [1..n -> {k1, k2}] : n \in 0..MaxImages } }
    \cup
    { [message_type |-> ty,
       content |-> [parses |-> p, image_key |-> ik, file_key |-> fk, images |-> <<>>]] :
         ty \in {"text", "image", "file", "audio", "video", "sticker"},
         p \in BOOLEAN, ik \in {<<>>, k1}, fk \in {<<>>, f1} }


NoTurn ==
    [dmPolicy |-> "unset", renderMode |-> Undef, message_type |-> "text",
     content |-> [parses |-> FALSE, text |-> Undef, raw |-> <<>>, title |-> <<>>,
                  blocks |-> <<>>],
     mentions |-> Undef, parent_id |-> Undef,
     fetch |-> [result |-> "null", content |-> <<>>], reply |-> <<>>]

\* no turn is exercised
TurnIdle == turnIn = NoTurn /\ turnOut = Undef

\* no reply dispatcher has been created
ReplyIdle ==
    /\ replyParams = [renderMode |-> Undef, replyToMessageId |-> Undef]
    /\ fragments = <<>>
    /\ restarts = FALSE
    /\ rpc = "none"
    /\ typingState = Undef
    /\ reactions = {}
    /\ created = 0
    /\ starts = 0
    /\ startCalls = 0
    /\ stops = <<>>
    /\ drained = FALSE
    /\ delivered = 0
    /\ delivering = Undef
    /\ sent = <<>>
    /\ failed = {}
    /\ detachFailed = FALSE

NoRenderCall == [renderMode |-> Undef, text |-> <<>>]

RenderIdle == renderIn = NoRenderCall /\ renderOut = Undef

\* no connection is running
PipelineIdle ==
    /\ cfg = DefaultCfg
    /\ botOpenId = Undef
    /\ monitor = [pc |-> "none", probe |-> "none"]
    /\ warnings = Undef
    /\ hasHistories = FALSE
    /\ chatHistories = [c \in Chats |-> <<>>]
    /\ tasks = <<>>
    /\ budget = 0
    /\ inbound = {}
    /\ bufLog = <<>>

\* the event connection has been started
InitPipeline ==
    /\ monitor = [pc |-> "listening", probe |-> "settled"]
    /\ warnings = Undef
    /\ chatHistories = [c \in Chats |-> <<>>]
    /\ tasks = <<>>
    /\ bufLog = <<>>
    /\ AllowIdle
    /\ MediaIdle
    /\ TurnIdle
    /\ MentionIdle
    /\ StripIdle
    /\ RenderIdle
    /\ ReplyIdle

Init ==
    /\ InitPipeline
    /\ cfg \in HistoryConfigs
    /\ hasHistories \in BOOLEAN
    /\ botOpenId = Some(idBot)
    /\ inbound = CoreEvents
    /\ budget = MaxEvents

\* a connection that also receives events whose normalization throws,
\* next to a direct message and a group message that mentions the bot
InitFault ==
    /\ InitPipeline
    /\ cfg = DefaultCfg
    /\ hasHistories = TRUE
    /\ botOpenId = Some(idBot)
    /\ inbound = FaultEvents
                 \cup { e \in CoreEvents : e.open_id = idA /\ e.chat_id \in {g1, p1} }
    /\ budget = MaxEvents

\* a connection that is given a history map, with buffering off
\* (historyLimit 0), of depth one, and of the default depth
InitBuffers ==
    /\ InitPipeline
    /\ cfg \in { [DefaultCfg EXCEPT !.historyLimit = h] : h \in {Undef, Some(0), Some(1)} }
    /\ hasHistories = TRUE
    /\ botOpenId = Some(idBot)
    /\ inbound = CoreEvents
    /\ budget = MaxEvents

\* one group with two senders, on a connection with buffering off
\* (historyLimit 0) or of depth MaxHistoryLimit, with or without a history map
InitHistoryOff ==
    /\ InitPipeline
    /\ cfg \in { [DefaultCfg EXCEPT !.historyLimit = Some(h)] : h \in {0, MaxHistoryLimit} }
    /\ hasHistories \in BOOLEAN
    /\ botOpenId = Some(idBot)
    /\ inbound = { e \in CoreEvents : e.chat_id = g1 }
    /\ budget = MaxEvents

\* monitorFeishuProvider has been called and awaits the bot id probe; the
\* events are those one sender can post in a group: without a mention,
\* mentioning the bot, mentioning another user
InitMonitor ==
    /\ monitor = [pc |-> "probing", probe |-> "none"]
    /\ warnings = Undef
    /\ botOpenId = Undef
    /\ cfg = DefaultCfg
    /\ hasHistories = TRUE
    /\ chatHistories = [c \in Chats |-> <<>>]
    /\ tasks = <<>>
    /\ bufLog = <<>>
    /\ inbound = { e \in Events : e.chat_id = g1 /\ e.open_id = idA }
    /\ budget = MaxEvents
    /\ AllowIdle
    /\ MediaIdle
    /\ TurnIdle
    /\ MentionIdle
    /\ StripIdle
    /\ RenderIdle
    /\ ReplyIdle

\* a connection under each group policy, set for the channel, set as the
\* default of all channels, or not set, with and without a global allow-list
\* naming one sender; one event arrives
InitWarning ==
    /\ InitPipeline
    /\ cfg \in { [DefaultCfg EXCEPT !.groupPolicy = gp, !.defaultsGroupPolicy = dg,
                                     !.groupAllowFrom = ga] :
                   gp \in {"unset", "open", "allowlist", "disabled"},
                   dg \in {"unset", "open", "allowlist", "disabled"},
                   ga \in {Undef, Some(<<idA>>)} }
    /\ hasHistories = TRUE
    /\ botOpenId = Some(idBot)
    /\ \E e \in CoreEvents : inbound = {e}
    /\ budget = MaxGateEvents

InitGate ==
    /\ InitPipeline
    /\ cfg \in GroupGateConfigs \cup DmGateConfigs \cup HistoryConfigs
    /\ hasHistories = TRUE
    /\ botOpenId \in {Undef, Some(idBot)}
    /\ \E e \in Events : inbound = {e}
    /\ budget = MaxGateEvents

InitAllow ==
    /\ PipelineIdle
    /\ MediaIdle
    /\ TurnIdle
    /\ MentionIdle
    /\ StripIdle
    /\ RenderIdle
    /\ ReplyIdle
    /\ allowIn \in [allowFrom : AllowLists,
                    senderId : {idA, <<"U", "A">>, idB, <<"*">>, <<>>},
                    senderName : OptOf({<<"A", "l">>, <<"B">>, <<"u", "b">>, <<>>, <<"*">>})]
    /\ allowOut = Undef

\* open_id of a mention; <<>> is a mention that carries no open_id
MentionIds == {idA, idB, idBot, <<>>}

InitMention ==
    /\ PipelineIdle
    /\ AllowIdle
    /\ MediaIdle
    /\ TurnIdle
    /\ StripIdle
    /\ RenderIdle
    /\ ReplyIdle
    /\ mentionIn \in [mentions : UNION { [1..n -> MentionIds] : n \in 0..MaxList },
                       botOpenId : {Undef, Some(<<>>), Some(idBot)}]
    /\ mentionOut = Undef

StripChars == {"@", "A", "_", " "}

Texts == UNION { [1..n -> StripChars] : n \in 0..MaxText }

\* { name, key } of a mention: the placeholder key stands in the raw text,
\* the display name after an "@" in a rendered one
StripMentions == { [name |-> <<"A">>, key |-> <<"@", "_">>],
                   [name |-> <<"A", "A">>, key |-> <<"@", "_", "_">>] }

InitStrip ==
    /\ PipelineIdle
    /\ AllowIdle
    /\ MediaIdle
    /\ TurnIdle
    /\ MentionIdle
    /\ RenderIdle
    /\ ReplyIdle
    /\ stripIn \in [text : Texts,
                     mentions : OptOf(UNION { [1..n -> StripMentions] : n \in 0..MaxList })]
    /\ stripOut = <<>>

\* pieces of reply text: fences, rows with and without enclosing pipes,
\* separator rows, line breaks, single characters
RenderPieces ==
    { Fence, <<"|", "a", "|">>, <<"|", "-", "|">>, <<"a", "|", "a">>, <<"-", "|", "-">>,
      <<"\n">>, <<Backquote>>, <<"a">>, <<"|">>, <<" ">> }

RECURSIVE Concat(_)
Concat(pieces) == IF pieces = <<>> THEN <<>> ELSE Head(pieces) \o Concat(Tail(pieces))

RenderTexts == { Concat(ps) : ps \in UNION { [1..n -> RenderPieces] : n \in 0..MaxPieces } }

RenderModes == OptOf({"auto", "raw", "card"})

InitRender ==
    /\ PipelineIdle
    /\ AllowIdle
    /\ MediaIdle
    /\ TurnIdle
    /\ MentionIdle
    /\ StripIdle
    /\ ReplyIdle
    /\ renderIn \in [renderMode : RenderModes, text : RenderTexts]
    /\ renderOut = Undef

\* reply texts: prose longer than a chunk, white space only, and empty
FragmentTexts == { <<"a", "b", "c", "d">>, <<" ">>, <<>> }

\* the message a reply answers
idMsg == <<"m", "1">>

\* lines 38-49: a dispatcher just created for one dispatch
DispatcherCreated ==
    /\ PipelineIdle
    /\ AllowIdle
    /\ MediaIdle
    /\ TurnIdle
    /\ MentionIdle
    /\ StripIdle
    /\ RenderIdle
    /\ replyParams \in [renderMode : RenderModes, replyToMessageId : OptOf({idMsg})]
    /\ fragments \in UNION { [1..n -> FragmentTexts] : n \in 0..MaxFragments }
    /\ rpc = "dispatching"
    /\ typingState = Undef
    /\ reactions = {}
    /\ created = 0
    /\ starts = 0
    /\ startCalls = 0
    /\ stops = <<>>
    /\ drained = FALSE
    /\ delivered = 0
    /\ delivering = Undef
    /\ sent = <<>>
    /\ failed = {}
    /\ detachFailed = FALSE

\* a reply whose start the host signals once
InitReply == DispatcherCreated /\ restarts = FALSE

\* a reply during which the host repeats the reply-start signal
InitTyping == DispatcherCreated /\ restarts = TRUE

Next ==
    \/ \E event \in AllEvents : Receive(event)
    \/ \E t \in 1..Len(tasks) : MediaResolved(t)
    \/ \E t \in 1..Len(tasks) : AgentReply(t)
    \/ \E t \in 1..Len(tasks) : DispatchReturned(t)
    \/ \E t \in 1..Len(tasks) : DispatchThrew(t)

NextAllow == CallAllowlistMatch

Spec == Init /\ [][Next]_vars

SpecGate == InitGate /\ [][Next]_vars

SpecFault == InitFault /\ [][Next]_vars

SpecBuffers == InitBuffers /\ [][Next]_vars

SpecHistoryOff == InitHistoryOff /\ [][Next]_vars

NextMonitor ==
    \/ ProbeSettled
    \/ Next

SpecMonitor == InitMonitor /\ [][NextMonitor]_vars

NextWarning ==
    \/ CollectWarnings
    \/ Next

SpecWarning == InitWarning /\ [][NextWarning]_vars

SpecAllow == InitAllow /\ [][NextAllow]_vars

NextMention == CallCheckBotMentioned

SpecMention == InitMention /\ [][NextMention]_vars

NextReply ==
    \/ OnReplyStart
    \/ AddSettled
    \/ OnIdle
    \/ \E i \in 1..Len(stops) : RemoveSettled(i)
    \/ DeliverBegin
    \/ SendChunkOk
    \/ SendChunkFailed
    \/ ReplyDispatchReturned
    \/ ReplyDispatchThrew

SpecReply == InitReply /\ [][NextReply]_vars

SpecTyping == InitTyping /\ [][NextReply]_vars

NextRender == CallDeliverKind

SpecRender == InitRender /\ [][NextRender]_vars

\* handleFeishuMessage has reached the call of resolveFeishuMediaList
InitMedia ==
    /\ PipelineIdle
    /\ AllowIdle
    /\ MentionIdle
    /\ StripIdle
    /\ RenderIdle
    /\ ReplyIdle
    /\ TurnIdle
    /\ mediaMsg \in MediaMessages
    /\ media = [pc |-> "called", todo |-> <<>>, out |-> <<>>, settled |-> <<>>,
                payload |-> buildFeishuMediaPayload(<<>>)]

-----------------------------------------------------------------------------
(* src/src/bot.ts and src/src/reply-dispatcher.ts: one direct-message turn *)

\* the fallback text of a post, lines 166 and 170 (a bracketed six-character
\* literal in the source, written here in ASCII)
RichTextPlaceholder == <<"[", "r", "i", "c", "h", "]">>

\* lines 145-158: what one element of a paragraph adds to textContent;
\* alt is the href of a link and the user_id of a mention
ElementText(element) ==
    CASE element.tag = "text" -> element.text
      [] element.tag = "a" -> (IF Truthy(element.text) THEN element.text ELSE element.alt)
      [] element.tag = "at" ->
             <<"@">> \o (IF Truthy(element.text) THEN element.text ELSE element.alt)
      [] OTHER -> <<>>

\* lines 143-161: the elements of one paragraph, then a line break
ParagraphText(paragraph) ==
    Concat([i \in 1..Len(paragraph) |-> ElementText(paragraph[i])]) \o <<"\n">>

\* lines 134-172, the textContent of the result.  JSON.parse throwing, and
\* the TypeError of reading .tag of a null element, both end in the catch
\* of lines 169-171.
parsePostText(content) ==
    IF ~content.parses THEN RichTextPlaceholder
    ELSE IF \E p \in 1..Len(content.blocks) :
               \E i \in 1..Len(content.blocks[p]) : content.blocks[p][i].tag = "null"
    THEN RichTextPlaceholder
    ELSE LET textContent ==
                 (IF Truthy(content.title) THEN content.title \o <<"\n", "\n">> ELSE <<>>)
                 \o Concat([p \in 1..Len(content.blocks) |->
                                ParagraphText(content.blocks[p])])
         IN  IF Truthy(Trim(textContent)) THEN Trim(textContent)
             ELSE RichTextPlaceholder

\* parseMessageContent answering a payload that is not JSON as parsePostContent
\* does
parseMessageContentPlaceholder(content, messageType) ==
    IF ~content.parses THEN RichTextPlaceholder
    ELSE IF messageType = "text"
    THEN (IF IsDef(content.text) /\ Truthy(Val(content.text)) THEN Val(content.text)
          ELSE <<>>)
    ELSE IF messageType = "post" THEN parsePostText(content)
    ELSE content.raw

\* lines 63-78; content.raw is the JSON text itself.  JSON.parse is the first
\* statement of the try, so a payload that is not JSON reaches the catch of
\* lines 75-77 for every message type.
parseMessageContent(content, messageType) ==
    IF ~content.parses THEN content.raw
    ELSE IF messageType = "text"
    THEN (IF IsDef(content.text) /\ Truthy(Val(content.text)) THEN Val(content.text)
          ELSE <<>>)
    ELSE IF messageType = "post" THEN parsePostText(content)
    ELSE content.raw

ReplyingTo == <<"[", "R", "e", "p", "l", "y", "i", "n", "g", " ", "t", "o", ":", " ", "\"">>

\* MessageBody with the quoted-reply prefix on every message
MessageBodyAlwaysQuotes(content, quotedContent) ==
    ReplyingTo \o OrElse(quotedContent, <<>>) \o <<"\"", "]", "\n", "\n">> \o content

\* lines 503-507
MessageBody(content, quotedContent) ==
    IF IsDef(quotedContent) /\ Truthy(Val(quotedContent))
    THEN ReplyingTo \o Val(quotedContent) \o <<"\"", "]", "\n", "\n">> \o content
    ELSE content

\* QuotedContentOf never fetching the parent message
QuotedContentOfUnfetched(parentId, fetch) == Undef

\* lines 488-499: quotedContent after the fetch of the parent message; fetch
\* is what getMessageFeishu does when it is called: it throws (caught and
\* logged at lines 496-498), resolves to null, or resolves to a message
QuotedContentOf(parentId, fetch) ==
    IF ~IsDef(parentId) THEN Undef
    ELSE IF fetch.result = "message" THEN Some(fetch.content)
    ELSE Undef

\* line 363: parentId of the context
ParentIdOf(parent_id) ==
    IF IsDef(parent_id) /\ Truthy(Val(parent_id)) THEN parent_id ELSE Undef

\* lines 98-140 for one payload whose sends all return
DeliveredSends(renderMode, text, replyToMessageId) ==
    LET kind == DeliverKind(renderMode, text)
        chunks == ChunksOf(kind, text)
    IN  IF kind = "skip" THEN <<>>
        ELSE [k \in 1..Len(chunks) |-> SendOf(kind, 1, k, chunks[k], replyToMessageId)]

\* handleFeishuMessage for one direct message (lines 381-578) with every
\* collaborator returning, and the delivery of the agent's one reply
TurnHandled ==
    /\ ~IsDef(turnOut)
    /\ LET content == stripBotMention(
                          parseMessageContent(turnIn.content, turnIn.message_type),
                          turnIn.mentions)
           ctx == [chatId |-> p1, messageId |-> idMsg, senderOpenId |-> idA,
                   senderName |-> Undef, chatType |-> "p2p", mentionedBot |-> FALSE,
                   content |-> content]
           outcome == PolicyGate([DefaultCfg EXCEPT !.dmPolicy = turnIn.dmPolicy], ctx)
           quotedContent == QuotedContentOf(ParentIdOf(turnIn.parent_id), turnIn.fetch)
           messageBody == MessageBody(ctx.content, quotedContent)
       IN  turnOut' = Some(
               IF GateReturns(outcome)
               THEN [outcome |-> outcome, content |-> content, body |-> Undef,
                     sends |-> <<>>]
               ELSE [outcome |-> outcome, content |-> content,
                     body |-> Some(formatAgentEnvelope(ctx.senderOpenId, Undef,
                                                       messageBody, ctx.messageId)),
                     sends |-> DeliveredSends(turnIn.renderMode, turnIn.reply,
                                              Some(ctx.messageId))])
    /\ UNCHANGED <<turnIn, mediaMsg, media, pipelineVars, unitVars, replyVars>>

hello == <<"h", "e", "l", "l", "o">>

\* contents of a text message: the text hello, hello after a mention
\* placeholder, an empty text, and content that is not JSON
TextContents ==
    { [parses |-> TRUE, text |-> Some(hello), raw |-> <<"{", "}">>],
      [parses |-> TRUE, text |-> Some(<<"@", "_", " ">> \o hello), raw |-> <<"{", "}">>],
      [parses |-> TRUE, text |-> Undef, raw |-> <<"{", "}">>],
      [parses |-> FALSE, text |-> Undef, raw |-> <<"{">>],
      [parses |-> FALSE, text |-> Undef, raw |-> <<"@", "_", " ", "{">>] }

\* paragraphs of a post: a text run and a mention, a link without a label
\* and an image, a null element
PostParagraphs ==
    { <<[tag |-> "text", text |-> <<"h", "i">>, alt |-> <<>>],
        [tag |-> "at", text |-> <<>>, alt |-> <<"u">>]>>,
      <<[tag |-> "a", text |-> <<>>, alt |-> <<"w">>],
        [tag |-> "img", text |-> <<>>, alt |-> <<>>]>>,
      <<[tag |-> "null", text |-> <<>>, alt |-> <<>>]>> }

\* contents of a message: those of a text message, and posts of up to
\* MaxParagraphs paragraphs with or without a title
TurnContents ==
    { [parses |-> t.parses, text |-> t.text, raw |-> t.raw, title |-> <<>>,
       blocks |-> <<>>] : t \in TextContents }
    \cup
    { [parses |-> TRUE, text |-> Undef, raw |-> <<"{", "}">>, title |-> ti, blocks |-> b] :
        ti \in { <<>>, <<"T">> },
        b \in UNION { [1..n -> PostParagraphs] : n \in 0..MaxParagraphs } }

idParent == <<"m", "0">>

\* what getMessageFeishu can do for the parent message: throw, resolve to
\* null, resolve to a message whose content is empty or the text "q"
QuotedFetches ==
    { [result |-> "threw", content |-> <<>>],
      [result |-> "null", content |-> <<>>],
      [result |-> "message", content |-> <<>>],
      [result |-> "message", content |-> <<"q">>] }

\* a markdown table of a header row and a separator row
smallTable == <<"|", "a", "|", "\n", "|", "-", "|">>

\* replies of the agent: short prose, prose longer than a chunk, a fenced
\* block, white space, a table
TurnReplies ==
    { <<"o", "k">>, <<"a", "b", "c", "d">>, Fence \o <<"x">> \o Fence, <<" ">>,
      smallTable }

\* a direct message has arrived
InitTurn ==
    /\ PipelineIdle
    /\ AllowIdle
    /\ MediaIdle
    /\ MentionIdle
    /\ StripIdle
    /\ RenderIdle
    /\ ReplyIdle
    /\ turnIn \in [dmPolicy : {"unset", "open", "pairing", "allowlist"},
                    renderMode : RenderModes,
                    message_type : {"text", "post", "image"},
                    content : TurnContents,
                    mentions : OptOf({ <<>>, <<[name |-> <<"A">>, key |-> <<"@", "_">>]>> }),
                    parent_id : OptOf({ <<>>, idParent }),
                    fetch : QuotedFetches,
                    reply : TurnReplies]
    /\ turnOut = Undef

NextTurn == TurnHandled

SpecTurn == InitTurn /\ [][NextTurn]_vars

NextMedia ==
    \/ ResolveBegin
    \/ ItemSettled
    \/ DispatchAfterMedia

SpecMedia == InitMedia /\ [][NextMedia]_vars

NextStrip == CallStripBotMention

SpecStrip == InitStrip /\ [][NextStrip]_vars


-----------------------------------------------------------------------------
(* Properties *)

TaskIds == 1..Len(tasks)

IsGroupTask(t) == tasks[t].event.chat_type = "group"

ChatOf(t) == tasks[t].event.chat_id

HistoryIdsOfBody(t) ==
    { tasks[t].body[k].messageId : k \in 1..(Len(tasks[t].body) - 1) }

SeqRange(q) == { q[k] : k \in 1..Len(q) }

\* C1: an event the policy gate rejects (silent drop, or buffer and drop)
\* causes no routing, media resolution, envelope, dispatch, typing or
\* delivery call, at the time of the gate or at any later time.
C1_RejectedEventReachesNothing ==
    \A t \in TaskIds :
        tasks[t].outcome \in {"drop", "buffer"} =>
            /\ tasks[t].calls = {}
            /\ tasks[t].body = <<>>
            /\ tasks[t].pc = "returned"

C1_Witness ==
    \E t \in TaskIds : tasks[t].outcome = "drop" /\ tasks[t].pc = "returned"

\* C2: every entry a clear removes from a conversation's buffer was part of
\* the body of the dispatch that clears it, and no entry is in the body of
\* two completed dispatches.
C2_ClearedEntriesWereConsumedOnce ==
    /\ \A i \in 1..Len(bufLog) :
           bufLog[i].op = "clear" =>
               SeqRange(bufLog[i].entries) \subseteq HistoryIdsOfBody(bufLog[i].msg)
    /\ \A t1, t2 \in TaskIds :
           (t1 # t2 /\ tasks[t1].pc = "done" /\ tasks[t2].pc = "done") =>
               HistoryIdsOfBody(t1) \cap HistoryIdsOfBody(t2) = {}

\* C3: a step in which a handler fails (throws between the gate and the end
\* of the dispatch) leaves every buffer as it was, and a buffer is emptied
\* only by the step in which the dispatch of an event of that conversation
\* returns.
C3_ClearOnlyAfterReturnedDispatch ==
    [][ /\ \A t \in 1..Len(tasks') :
              (tasks'[t].pc = "failed" /\ (t > Len(tasks) \/ tasks[t].pc # "failed"))
                  => chatHistories' = chatHistories
        /\ \A c \in Chats :
              (chatHistories[c] # <<>> /\ chatHistories'[c] = <<>>) =>
                  \E t \in TaskIds :
                      /\ ChatOf(t) = c
                      /\ tasks[t].pc = "dispatch"
                      /\ tasks'[t].pc = "done"
      ]_vars

\* a dispatch threw while entries were buffered, and they are still there
C3_Witness ==
    \E t \in TaskIds :
        /\ tasks[t].pc = "failed"
        /\ "dispatch" \in tasks[t].calls
        /\ Len(tasks[t].body) > 1
        /\ MessageIds(chatHistories[ChatOf(t)]) =
               [k \in 1..(Len(tasks[t].body) - 1) |-> tasks[t].body[k].messageId]


\* the buffer operations of conversation c, in the order they ran
RECURSIVE ChatLog(_, _)
ChatLog(log, c) ==
    IF log = <<>> THEN <<>>
    ELSE IF Head(log).chat = c THEN <<Head(log)>> \o ChatLog(Tail(log), c)
    ELSE ChatLog(Tail(log), c)

\* position of message id m in the body of task t (0 when absent)
BodyPos(t, m) ==
    LET ks == { k \in 1..Len(tasks[t].body) : tasks[t].body[k].messageId = m }
    IN  IF ks = {} THEN 0 ELSE CHOOSE k \in ks : TRUE

\* C4: scenario C.  With buffering on (historyLimit > 0), a non-mention
\* message of a group that requires a mention becomes the newest entry of
\* that group's buffer and causes no call at all; when the next buffer
\* operation of the group is the context build of a mentioning message,
\* that message's dispatch body holds the buffered entry before the new
\* message, which comes last; and when the clear of a returned dispatch is
\* the group's latest buffer operation, the group's buffer is empty.
C4_ScenarioC ==
    \A c \in GroupChats :
        LET log == ChatLog(bufLog, c)
        IN  \A i \in 1..Len(log) :
              /\ (log[i].op = "record" /\ historyLimitOf(cfg) > 0) =>
                    /\ log[i].entries # <<>>
                    /\ log[i].entries[Len(log[i].entries)] = log[i].msg
                    /\ tasks[log[i].msg].calls = {}
                    /\ (i < Len(log) /\ log[i + 1].op = "build") =>
                          LET m == log[i + 1].msg
                          IN  /\ "dispatch" \in tasks[m].calls \/ tasks[m].pc = "failed"
                              /\ BodyPos(m, log[i].msg) > 0
                              /\ BodyPos(m, log[i].msg) < BodyPos(m, m)
                              /\ BodyPos(m, m) = Len(tasks[m].body)
              /\ (log[i].op = "clear" /\ i = Len(log)) => chatHistories[c] = <<>>

\* record of 1, then build and clear of the mentioning message 2
C4_Witness ==
    \E c \in GroupChats :
        /\ [k \in 1..Len(ChatLog(bufLog, c)) |->
               <<ChatLog(bufLog, c)[k].op, ChatLog(bufLog, c)[k].msg>>]
             = << <<"record", 1>>, <<"build", 2>>, <<"clear", 2>> >>
        /\ tasks[2].pc = "done"
        /\ "send" \in tasks[2].calls
        /\ Len(tasks[2].body) = 2
        /\ chatHistories[c] = <<>>


-----------------------------------------------------------------------------
(* The admission rules as the specification words them *)

ListedSet(list) == { NormalizeEntry(list[i]) : i \in 1..Len(list) } \ {<<>>}

HasWildcard(list) == <<"*">> \in ListedSet(list)

ListsId(list, id) == ToLower(id) \in ListedSet(list)

ListsName(list, name) == name # <<>> /\ ToLower(name) \in ListedSet(list)

\* the group's own settings: the entry of cfg.groups keyed by the chat id
OwnGroup(c, chat) ==
    LET ks == { k \in 1..Len(c.groups) : ToLower(c.groups[k].key) = ToLower(chat) }
    IN  IF ks = {} THEN Undef ELSE Some(c.groups[CHOOSE k \in ks : \A j \in ks : k <= j])

EffectiveAllowList(c, chat) ==
    LET own == OwnGroup(c, chat)
    IN  IF IsDef(own) /\ IsDef(Val(own).allowFrom) THEN Val(Val(own).allowFrom)
        ELSE IF IsDef(c.groupAllowFrom) THEN Val(c.groupAllowFrom)
        ELSE <<>>

RequiresMention(c, event) ==
    LET own == OwnGroup(c, event.chat_id)
    IN  /\ event.chat_type = "group"
        /\ IF IsDef(own) /\ IsDef(Val(own).requireMention) THEN Val(Val(own).requireMention)
           ELSE IF IsDef(c.requireMention) THEN Val(c.requireMention)
           ELSE TRUE

\* the sender of the event is in the allow-list by wildcard, id or display name
SenderListed(list, event) ==
    \/ HasWildcard(list)
    \/ ListsId(list, event.open_id)
    \/ ListsName(list, event.displayName)

UnlistedGroupEvent(event) ==
    /\ event.chat_type = "group"
    /\ cfg.groupPolicy = "allowlist"
    /\ ~SenderListed(EffectiveAllowList(cfg, event.chat_id), event)

\* C5: scenario B.  A group message under groupPolicy=allowlist whose sender
\* is not in the effective allow-list is dropped: the step that receives it
\* changes no buffer, and no call is ever made for it, with or without a
\* mention of the bot.
C5_ScenarioB ==
    [][ \A t \in 1..Len(tasks') :
            UnlistedGroupEvent(tasks'[t].event) =>
                /\ tasks'[t].outcome = "drop"
                /\ tasks'[t].pc = "returned"
                /\ tasks'[t].calls = {}
                /\ t > Len(tasks) => (chatHistories' = chatHistories /\ bufLog' = bufLog)
      ]_vars

C5_Witness ==
    \E t \in TaskIds :
        /\ UnlistedGroupEvent(tasks[t].event)
        /\ EffectiveAllowList(cfg, ChatOf(t)) # <<>>
        /\ checkBotMentioned(tasks[t].event.mentions, botOpenId)
        /\ tasks[t].outcome = "drop"

\* C6: with groupPolicy=disabled every group message is dropped; with
\* groupPolicy=open no group message is dropped, whatever the allow-list holds.
C6_GroupDisabledAndOpen ==
    \A t \in TaskIds :
        IsGroupTask(t) =>
            /\ cfg.groupPolicy = "disabled" => tasks[t].outcome = "drop"
            /\ cfg.groupPolicy = "open" => tasks[t].outcome \in {"accept", "buffer"}

C6_Witness ==
    \E t \in TaskIds :
        /\ IsGroupTask(t)
        /\ cfg.groupPolicy = "open"
        /\ IsDef(cfg.groupAllowFrom)
        /\ ~SenderListed(EffectiveAllowList(cfg, ChatOf(t)), tasks[t].event)
        /\ tasks[t].outcome = "accept"

\* C7: under groupPolicy=allowlist a group event is admitted if and only if
\* the effective allow-list holds the wildcard, the sender's id or the
\* sender's display name.
C7_GroupAllowlistByIdOrName ==
    \A t \in TaskIds :
        (IsGroupTask(t) /\ cfg.groupPolicy = "allowlist") =>
            (tasks[t].outcome # "drop"
                <=> SenderListed(EffectiveAllowList(cfg, ChatOf(t)), tasks[t].event))

\* C8: an admitted group event is buffered exactly when the group requires a
\* mention (its own setting, else the global one, else true) and the event
\* does not mention the bot; a direct message is never buffered.  The step
\* that buffers it makes it the newest entry of its own conversation's
\* buffer, leaves the other buffers alone, and the pipeline stops there.
C8_BufferInsteadOfDiscard ==
    [][ \A t \in 1..Len(tasks') :
            LET task == tasks'[t]
                c == task.event.chat_id
                mentioned == checkBotMentioned(task.event.mentions, botOpenId)
            IN  /\ task.outcome # "drop" =>
                      (task.outcome = "buffer"
                          <=> (RequiresMention(cfg, task.event) /\ ~mentioned))
                /\ task.outcome = "buffer" =>
                      /\ task.pc = "returned"
                      /\ task.calls = {}
                      /\ (t > Len(tasks) /\ hasHistories /\ historyLimitOf(cfg) > 0) =>
                            /\ chatHistories'[c] # <<>>
                            /\ chatHistories'[c][Len(chatHistories'[c])] =
                                   [sender |-> task.event.open_id, body |-> t, messageId |-> t]
                            /\ Len(chatHistories'[c]) <= historyLimitOf(cfg)
                            /\ \A d \in Chats \ {c} : chatHistories'[d] = chatHistories[d]
      ]_vars

\* the group's own requireMention=true wins over the global false
C8_Witness ==
    \E t \in TaskIds :
        /\ tasks[t].outcome = "buffer"
        /\ cfg.requireMention = Some(FALSE)
        /\ IsDef(OwnGroup(cfg, ChatOf(t)))
        /\ Len(chatHistories[ChatOf(t)]) = 1
        /\ chatHistories[ChatOf(t)][1].messageId = t

\* C9: a direct message is accepted under dmPolicy open or pairing; under
\* dmPolicy=allowlist it is accepted exactly when the allow-list holds the
\* wildcard or the sender's id, so never on account of the display name.
C9_DirectAdmission ==
    \A t \in TaskIds :
        ~IsGroupTask(t) =>
            LET list == OrElse(cfg.allowFrom, <<>>)
            IN  /\ cfg.dmPolicy \in {"open", "pairing"} => tasks[t].outcome = "accept"
                /\ cfg.dmPolicy = "allowlist" =>
                      /\ tasks[t].outcome \in {"accept", "drop"}
                      /\ tasks[t].outcome = "accept"
                            <=> (HasWildcard(list) \/ ListsId(list, tasks[t].event.open_id))

\* the display name is listed, the id is not, and the message is dropped
C9_Witness ==
    \E t \in TaskIds :
        /\ ~IsGroupTask(t)
        /\ cfg.dmPolicy = "allowlist"
        /\ ListsName(OrElse(cfg.allowFrom, <<>>), tasks[t].event.displayName)
        /\ tasks[t].outcome = "drop"

\* the orderings of a list
Permuted(list) ==
    { [i \in 1..Len(list) |-> list[p[i]]] :
        p \in { f \in [1..Len(list) -> 1..Len(list)] :
                  \A i, j \in 1..Len(list) : i # j => f[i] # f[j] } }

\* C10: the match is decided over the whole list with precedence
\* wildcard > id > name: the source is wildcard whenever the list holds `*`,
\* else id when the lower-cased sender id is listed, else name when the
\* lower-cased sender name is listed, else there is no match; and every
\* ordering of the list gives the same result.
C10_AllowlistPrecedence ==
    IsDef(allowOut) =>
        LET list == allowIn.allowFrom
            expected ==
                IF HasWildcard(list) THEN "wildcard"
                ELSE IF ListsId(list, allowIn.senderId) THEN "id"
                ELSE IF IsDef(allowIn.senderName) /\ ListsName(list, Val(allowIn.senderName))
                    THEN "name"
                ELSE "none"
        IN  /\ Val(allowOut).matchSource = expected
            /\ Val(allowOut).allowed <=> expected # "none"
            /\ \A q \in Permuted(list) :
                   resolveFeishuAllowlistMatch(q, allowIn.senderId, allowIn.senderName)
                       = Val(allowOut)

\* the wildcard comes after an entry that matches the sender's name
C10_Witness ==
    /\ IsDef(allowOut)
    /\ Len(allowIn.allowFrom) = 2
    /\ NormalizeEntry(allowIn.allowFrom[2]) = <<"*">>
    /\ IsDef(allowIn.senderName)
    /\ NormalizeEntry(allowIn.allowFrom[1]) = ToLower(Val(allowIn.senderName))
    /\ Val(allowOut).matchSource = "wildcard"


-----------------------------------------------------------------------------
(* C11: bot-mention detection *)

\* no bot identifier is known: the probe left none, or left an empty one
BotUnknown(bot) == ~IsDef(bot) \/ Val(bot) = <<>>

\* C11: checkBotMentioned answers true exactly when the mention list is not
\* empty and either no bot identifier is known or some entry of the list
\* carries the bot's identifier; with no identifier known it answers true
\* iff the list is not empty.
C11_MentionDetection ==
    IsDef(mentionOut) =>
        LET list == mentionIn.mentions
            bot == mentionIn.botOpenId
        IN  /\ Val(mentionOut) =
                  (/\ list # <<>>
                   /\ \/ BotUnknown(bot)
                      \/ \E i \in DOMAIN list : list[i] = Val(bot))
            /\ BotUnknown(bot) => (Val(mentionOut) = (list # <<>>))

\* a list that names only somebody else, answered while the bot id is unknown
C11_Witness ==
    /\ mentionOut = Some(TRUE)
    /\ mentionIn.botOpenId = Undef
    /\ mentionIn.mentions = <<idA>>

-----------------------------------------------------------------------------
(* C12: mention stripping applied twice *)

\* C12: stripBotMention(stripBotMention(t, m), m) = stripBotMention(t, m)
\* for every text t and mention list m.
C12_StripIdempotent ==
    Len(stripOut) = 2 => stripOut[2] = stripOut[1]


-----------------------------------------------------------------------------
(* C13: the history buffer as a bounded queue *)

\* the configured buffer depth: the channel's historyLimit, else the group
\* chat default of the host configuration, else the built-in default
ConfiguredLimit ==
    LET n == IF cfg.historyLimit # Undef THEN cfg.historyLimit[1]
             ELSE IF cfg.messagesHistoryLimit # Undef THEN cfg.messagesHistoryLimit[1]
             ELSE DEFAULT_GROUP_HISTORY_LIMIT
    IN  IF n < 0 THEN 0 ELSE n

\* the messages recorded in the log since its last clear, oldest first
RECURSIVE RecordedSinceClear(_)
RecordedSinceClear(log) ==
    IF log = <<>> THEN <<>>
    ELSE LET last == log[Len(log)]
             front == SubSeq(log, 1, Len(log) - 1)
         IN  CASE last.op = "clear" -> <<>>
               [] last.op = "record" -> Append(RecordedSinceClear(front), last.msg)
               [] OTHER -> RecordedSinceClear(front)

LastN(q, n) == IF Len(q) <= n THEN q ELSE SubSeq(q, Len(q) - n + 1, Len(q))

\* C13: after any sequence of record calls on a conversation its buffer
\* holds at most historyLimit entries, and they are the most recently
\* recorded messages in the order they were recorded: whatever was evicted
\* is older than everything that stayed.
C13_BoundedMostRecent ==
    \A c \in GroupChats :
        /\ Len(chatHistories[c]) <= ConfiguredLimit
        /\ MessageIds(chatHistories[c]) =
              LastN(RecordedSinceClear(ChatLog(bufLog, c)), ConfiguredLimit)

\* two records at depth 1: the first message was evicted, the second stays
C13_Witness ==
    \E c \in GroupChats :
        /\ ConfiguredLimit = 1
        /\ RecordedSinceClear(ChatLog(bufLog, c)) = <<1, 2>>
        /\ MessageIds(chatHistories[c]) = <<2>>

-----------------------------------------------------------------------------
(* C14: building the history context *)

\* C14: the step that builds the dispatch body of a group message leaves
\* every history buffer as it was, and the body is the conversation's
\* buffered entries, each once, oldest first, followed by the message itself.
C14_BuildReadsWithoutMutating ==
    [][\A t \in TaskIds :
          (IsGroupTask(t) /\ tasks[t].body = <<>> /\ tasks'[t].body # <<>>) =>
              LET body == tasks'[t].body
                  entries == chatHistories[ChatOf(t)]
              IN  /\ chatHistories' = chatHistories
                  /\ Len(body) = Len(entries) + 1
                  /\ \A k \in 1..Len(entries) :
                        /\ body[k].messageId = entries[k].messageId
                        /\ body[k].text = entries[k].body
                        /\ body[k].speaker = Some(entries[k].sender)
                  /\ body[Len(body)].messageId = t]_vars

\* a dispatch body of two envelopes whose first is the entry still buffered
C14_Witness ==
    \E t \in TaskIds :
        /\ IsGroupTask(t)
        /\ tasks[t].pc = "dispatch"
        /\ Len(tasks[t].body) = 2
        /\ Len(chatHistories[ChatOf(t)]) = 1
        /\ tasks[t].body[1].messageId = chatHistories[ChatOf(t)][1].messageId
        /\ tasks[t].body[2].messageId = t


-----------------------------------------------------------------------------
(* C15: the render decision *)

Indices(text) == 1..Len(text)

\* two fences, the second beginning after the first has ended
ContainsFencedBlock(text) ==
    \E i, j \in Indices(text) :
        /\ j >= i + 3
        /\ \A x \in i..(i + 2) : text[x] = "~"
        /\ j + 2 <= Len(text)
        /\ \A x \in j..(j + 2) : text[x] = "~"

\* `|`, one character or more of the same line, `|`, one line break or more,
\* `|`, one character or more out of - : | and space, `|`
ContainsPipeTable(text) ==
    \E i, j, k, l \in Indices(text) :
        /\ i + 2 <= j /\ j + 2 <= k /\ k + 2 <= l
        /\ text[i] = "|" /\ text[j] = "|" /\ text[k] = "|" /\ text[l] = "|"
        /\ \A x \in (i + 1)..(j - 1) : text[x] # "\n"
        /\ \A x \in (j + 1)..(k - 1) : text[x] = "\n"
        /\ \A x \in (k + 1)..(l - 1) : text[x] \in {"-", ":", "|", " "}

\* the lines of a text
RECURSIVE Lines(_)
Lines(text) ==
    LET brk == FindFrom(text, <<"\n">>, 1)
    IN  IF brk = 0 THEN <<text>>
        ELSE <<SubSeq(text, 1, brk - 1)>> \o Lines(SubSeq(text, brk + 1, Len(text)))

Chars(line) == { line[x] : x \in 1..Len(line) }

\* a header row and, on the next line, a separator row, both containing `|`
ContainsTableRows(text) ==
    \E n \in 1..(Len(Lines(text)) - 1) :
        /\ "|" \in Chars(Lines(text)[n])
        /\ "|" \in Chars(Lines(text)[n + 1])
        /\ "-" \in Chars(Lines(text)[n + 1])
        /\ Chars(Lines(text)[n + 1]) \subseteq {"-", ":", "|", " "}

\* how a fragment was rendered, given what counts as a table in it
RenderedAs(hasTable) ==
    LET mode == renderIn.renderMode
        text == renderIn.text
    IN  (IsDef(renderOut) /\ Val(renderOut) # "skip") =>
            /\ mode = Some("card") => Val(renderOut) = "card"
            /\ mode = Some("raw") => Val(renderOut) = "text"
            /\ mode \in {Undef, Some("auto")} =>
                  (Val(renderOut) = "card") = (ContainsFencedBlock(text) \/ hasTable)

-----------------------------------------------------------------------------
(* C16: chunked delivery *)

\* the sends made for fragment f, in the order they were made
RECURSIVE SendsFor(_, _)
SendsFor(log, f) ==
    IF log = <<>> THEN <<>>
    ELSE IF Head(log).fragment = f THEN <<Head(log)>> \o SendsFor(Tail(log), f)
    ELSE SendsFor(Tail(log), f)

\* the text deliver cuts into chunks: as given for a card, tables converted
\* for plain text
PayloadOf(f, kind) ==
    IF kind = "card" THEN fragments[f] ELSE convertMarkdownTables(fragments[f])

Min(a, b) == IF a <= b THEN a ELSE b

\* the j-th piece of text cut every TextChunkLimit characters
PieceOf(text, j) ==
    SubSeq(text, (j - 1) * TextChunkLimit + 1, Min(j * TextChunkLimit, Len(text)))

PieceCount(text) == (Len(text) + TextChunkLimit - 1) \div TextChunkLimit

\* deliver has returned or thrown for fragment f
Handled(f) == f < delivered \/ (f = delivered /\ ~IsDef(delivering))

\* one send per chunk, in chunk order, fragment after fragment; a fragment
\* whose delivery returned has had every chunk sent
SendsInChunkOrder ==
    /\ \A i \in 1..(Len(sent) - 1) :
          \/ sent[i + 1].fragment > sent[i].fragment /\ sent[i + 1].chunk = 1
          \/ /\ sent[i + 1].fragment = sent[i].fragment
             /\ sent[i + 1].chunk = sent[i].chunk + 1
    /\ \A i \in 1..Len(sent) :
          /\ sent[i].fragment \in 1..delivered
          /\ sent[i].text = PieceOf(PayloadOf(sent[i].fragment, sent[i].kind), sent[i].chunk)
    /\ \A f \in 1..delivered :
          LET sends == SendsFor(sent, f)
          IN  /\ sends # <<>> => sends[1].chunk = 1
              /\ (Handled(f) /\ f \notin failed /\ Trim(fragments[f]) # <<>>) =>
                    /\ sends # <<>>
                    /\ Len(sends) = PieceCount(PayloadOf(f, sends[1].kind))

\* C16 as worded: a fragment longer than the chunk limit is delivered as one
\* send per chunk in chunk order, and only the first chunk carries the
\* reply-to message id, every later chunk being sent without one.
C16_OnlyFirstChunkReplies ==
    /\ SendsInChunkOrder
    /\ \A i \in 1..Len(sent) :
          sent[i].replyTo = IF sent[i].chunk = 1 THEN replyParams.replyToMessageId ELSE Undef

\* C16, amended: a fragment longer than the chunk limit is delivered as one
\* send per chunk in chunk order, and every chunk, the first and the later
\* ones alike, carries the dispatcher's reply-to message id.
C16_EveryChunkReplies ==
    /\ SendsInChunkOrder
    /\ \A i \in 1..Len(sent) : sent[i].replyTo = replyParams.replyToMessageId

\* both chunks of "abcd" sent as replies to the message
C16_Witness ==
    /\ replyParams.replyToMessageId = Some(idMsg)
    /\ fragments = << <<"a", "b", "c", "d">> >>
    /\ Handled(1)
    /\ [i \in 1..Len(sent) |-> <<sent[i].text, sent[i].replyTo>>]
         = << << <<"a", "b">>, Some(idMsg) >>, << <<"c", "d">>, Some(idMsg) >> >>

-----------------------------------------------------------------------------
(* C17: one typing reaction at a time *)

\* C17: within one reply-dispatch transaction no sequence of reply-start,
\* deliver, error and idle callbacks leaves two typing reactions attached
\* at once.
C17_AtMostOneReaction == Cardinality(reactions) <= 1

-----------------------------------------------------------------------------
(* C18: the typing reaction is detached in the end *)

\* the dispatch has settled and no start or stop is still awaiting
ReplySettled == rpc \in {"returned", "threw"} /\ starts = 0 /\ stops = <<>>

\* C18: once the reply has completed or failed and every typing callback
\* has run to its end, no typing reaction is left attached (no delete call
\* having been refused), whether stop ran while start was awaiting the
\* attach call or the agent dispatch threw.
C18_DetachedWhenSettled == (ReplySettled /\ ~detachFailed) => reactions = {}

-----------------------------------------------------------------------------
(* C19: reaction failures and delivery *)

\* a start or a stop settles and the platform's reactions stay as they were:
\* the attach or detach call failed (or was not made)
ReactionCallFailed ==
    \/ starts' = starts - 1 /\ created' = created
    \/ Len(stops') = Len(stops) - 1 /\ reactions' = reactions

\* the chunks of every fragment that is not white space, in order
RECURSIVE AllPieces(_)
AllPieces(f) ==
    IF f > Len(fragments) THEN <<>>
    ELSE LET kind == DeliverKind(replyParams.renderMode, fragments[f])
             text == PayloadOf(f, kind)
         IN  (IF kind = "skip" THEN <<>>
              ELSE [j \in 1..PieceCount(text) |-> PieceOf(text, j)]) \o AllPieces(f + 1)

\* C19: a failing attach or detach of the typing reaction changes nothing
\* about delivery: the step in which it fails leaves the dispatch, the
\* fragment in progress and the sends untouched, and a dispatch that returns
\* without a send failure has sent every chunk of every fragment in order,
\* whatever the reaction calls did.
C19_ReactionFailureLeavesDelivery ==
    [][/\ ReactionCallFailed =>
            (rpc' = rpc /\ delivered' = delivered /\ delivering' = delivering
                /\ sent' = sent /\ failed' = failed)
       /\ (rpc' = "returned" /\ failed' = {}) =>
            [i \in 1..Len(sent') |-> sent'[i].text] = AllPieces(1)]_vars

\* the attach was refused, and the reply went out whole
C19_Witness ==
    /\ IsDef(replyParams.replyToMessageId)
    /\ startCalls > 0
    /\ starts = 0
    /\ created = 0
    /\ rpc = "returned"
    /\ failed = {}
    /\ fragments = << <<"a", "b", "c", "d">> >>
    /\ Len(sent) = 2

-----------------------------------------------------------------------------
(* C20: a delivery failure *)

\* C20: the step in which the delivery of a fragment fails reports the
\* fragment to the error callback and calls stop on the typing indicator on
\* record; it retracts no send and leaves the dispatch and the remaining
\* fragments as they were.  No step ever retracts a send, and every fragment
\* whose own delivery did not fail has all its chunks sent, whatever
\* happened to its siblings.
C20_DeliveryFailureIsLocal ==
    [][/\ failed' # failed =>
            /\ IsDef(delivering)
            /\ failed' = failed \cup {Val(delivering).fragment}
            /\ IF IsDef(typingState)
               THEN \E i \in 1..Len(stops') :
                        /\ stops'[i] = Val(typingState)
                        /\ stops = SubSeq(stops', 1, i - 1) \o SubSeq(stops', i + 1, Len(stops'))
               ELSE stops' = stops
            /\ sent' = sent
            /\ delivering' = Undef
            /\ rpc' = rpc /\ delivered' = delivered /\ fragments' = fragments
       /\ Len(sent') >= Len(sent) /\ SubSeq(sent', 1, Len(sent)) = sent
       /\ \A f \in 1..delivered' :
            ((f < delivered' \/ ~IsDef(delivering')) /\ f \notin failed'
                /\ DeliverKind(replyParams.renderMode, fragments[f]) # "skip") =>
                 LET kind == DeliverKind(replyParams.renderMode, fragments[f])
                     sends == SendsFor(sent', f)
                 IN  [j \in 1..Len(sends) |-> sends[j].text]
                       = [j \in 1..PieceCount(PayloadOf(f, kind)) |->
                              PieceOf(PayloadOf(f, kind), j)]]_vars

\* the second chunk of the first fragment failed while the typing reaction
\* was on record; its first chunk stays sent and the second fragment went
\* out whole
C20_Witness ==
    /\ failed = {1}
    /\ created = 1
    /\ delivered = 2
    /\ ~IsDef(delivering)
    /\ [i \in 1..Len(sent) |-> <<sent[i].fragment, sent[i].chunk>>]
         = << <<1, 1>>, <<2, 1>>, <<2, 2>> >>


-----------------------------------------------------------------------------
(* C21: media resolution is best effort *)

\* the distinct media keys the message refers to, by message type
DistinctReferences(msg) ==
    LET c == msg.content
    IN  IF ~c.parses THEN {}
        ELSE CASE msg.message_type = "post" -> SeqRange(c.images) \ {<<>>}
               [] msg.message_type = "image" -> {c.image_key} \ {<<>>}
               [] msg.message_type \in {"file", "audio", "sticker"} -> {c.file_key} \ {<<>>}
               [] msg.message_type = "video" -> {c.file_key, c.image_key} \ {<<>>}
               [] OTHER -> {}

\* the keys of the items that were saved, in the order they were settled
SavedKeys == LET saved == SelectSeq(media.settled, LAMBDA r : r.ok)
             IN  [i \in 1..Len(saved) |-> saved[i].fileKey]

OutPaths == [i \in 1..Len(media.out) |-> media.out[i].path]

\* C21: for every message type and every combination of download,
\* MIME-detection and persist failures, resolveFeishuMediaList returns (the
\* handler is then able to go on to the dispatch), the list it returns has
\* at most as many entries as the message has distinct media references, and
\* it holds exactly the saved items: a failed item contributes no entry.
C21_BestEffort ==
    /\ media.pc = "returned" => ENABLED DispatchAfterMedia
    /\ media.pc = "dispatched" => media.payload = buildFeishuMediaPayload(media.out)
    /\ Len(media.out) <= Cardinality(DistinctReferences(mediaMsg))
    /\ OutPaths = SavedKeys

-----------------------------------------------------------------------------
(* C22: the embedded images of a post *)

TwoEmbeddedKeys ==
    /\ mediaMsg.message_type = "post"
    /\ mediaMsg.content.parses
    /\ Len(mediaMsg.content.images) = 2

FailedItems == { i \in 1..Len(media.settled) : ~media.settled[i].ok }

\* C22: for a post with two embedded image keys, once resolution has
\* returned each key has been attempted once, in document order, whatever
\* happened to the other; the list has at most two entries, one entry per
\* key that did not fail and in the same order, so exactly one entry when
\* exactly one of the two failed.
C22_EmbeddedImagesIndependent ==
    (TwoEmbeddedKeys /\ media.pc \in {"returned", "dispatched"}) =>
        /\ [i \in 1..Len(media.settled) |-> media.settled[i].fileKey]
             = mediaMsg.content.images
        /\ \A i \in 1..Len(media.settled) : media.settled[i].type = "image"
        /\ Len(media.out) <= 2
        /\ Len(media.out) = 2 - Cardinality(FailedItems)
        /\ OutPaths = SavedKeys
        /\ Cardinality(FailedItems) = 1 => Len(media.out) = 1

\* the first image failed, the second was saved
C22_Witness ==
    /\ TwoEmbeddedKeys
    /\ media.pc = "returned"
    /\ FailedItems = {1}
    /\ OutPaths = <<mediaMsg.content.images[2]>>

-----------------------------------------------------------------------------
(* C29: the key downloaded for a video *)

\* C29: every download made for a video message names the message's file
\* key, and none names its thumbnail image key.
C29_VideoDownloadsFileKey ==
    (mediaMsg.message_type = "video" /\ mediaMsg.content.parses
        /\ Truthy(mediaMsg.content.file_key) /\ Truthy(mediaMsg.content.image_key)) =>
        \A i \in 1..Len(media.settled) :
            /\ media.settled[i].fileKey = mediaMsg.content.file_key
            /\ media.settled[i].fileKey # mediaMsg.content.image_key


-----------------------------------------------------------------------------
(* C23: exceptions while an event is processed *)

\* the exception was caught by the handler of the monitor or by the try of
\* handleFeishuMessage
Caught(t) == tasks[t].pc \in {"swallowed", "failed"}

NothingEscapes == \A t \in TaskIds : tasks[t].pc # "escaped"

LaterEventsAreReceived == budget > 0 => ENABLED (\E e \in inbound : Receive(e))

\* C23 as worded: an exception raised while an event is processed is caught,
\* does not reach the transport, leaves the conversation without any reply,
\* and later events are still received.
C23_CaughtAndNoReply ==
    /\ NothingEscapes
    /\ \A t \in TaskIds : Caught(t) => "send" \notin tasks[t].calls
    /\ LaterEventsAreReceived

\* C23: an exception raised while an event is processed is caught and does
\* not reach the transport, and later events are still received.  When it
\* was raised by the normalization nothing at all was done for the event;
\* when it was raised before the agent dispatch the conversation got no
\* reply; in every case the handler does nothing more for the event: it
\* neither marks the dispatcher idle nor clears the history buffer.
C23_CaughtAndSwallowed ==
    /\ NothingEscapes
    /\ \A t \in TaskIds :
          /\ NormalizationThrows(tasks[t].event) =>
                /\ tasks[t].pc = "swallowed"
                /\ tasks[t].calls = {}
                /\ tasks[t].body = <<>>
                /\ \A i \in 1..Len(bufLog) : bufLog[i].msg # t
          /\ Caught(t) =>
                /\ "dispatch" \notin tasks[t].calls => "send" \notin tasks[t].calls
                /\ "markDispatchIdle" \notin tasks[t].calls
                /\ \A i \in 1..Len(bufLog) : ~(bufLog[i].msg = t /\ bufLog[i].op = "clear")
    /\ LaterEventsAreReceived

\* the first event threw in the normalization, the second got its reply
C23_Witness ==
    /\ Len(tasks) >= 2
    /\ tasks[1].pc = "swallowed"
    /\ tasks[2].pc = "done"
    /\ "send" \in tasks[2].calls


-----------------------------------------------------------------------------
(* C24: order of the buffer operations of one conversation *)

\* the entries of the buffer are in arrival order
InArrivalOrder(entries) ==
    \A i, j \in 1..Len(entries) : i < j => entries[i].messageId < entries[j].messageId

\* the operations of one event are not separated by an operation of another
Uninterleaved(log) ==
    \A i, j, k \in 1..Len(log) :
        (i < j /\ j < k /\ log[i].msg = log[k].msg) => log[j].msg = log[i].msg

\* C24: in every group conversation the buffered entries are in the order
\* their events arrived, and the record, context build and clear of one event
\* are not interleaved with a buffer operation of another event of the same
\* conversation.
C24_ArrivalOrderUninterleaved ==
    \A c \in GroupChats :
        /\ InArrivalOrder(chatHistories[c])
        /\ Uninterleaved(ChatLog(bufLog, c))


-----------------------------------------------------------------------------
(* C25: the buffers of different conversations *)

\* the message ids conversation c's buffer holds after the first n of the
\* operations logged for c, when no other operation touches that buffer
RECURSIVE BufferAfter(_, _)
BufferAfter(log, n) ==
    IF n = 0 THEN <<>>
    ELSE CASE log[n].op = "record" -> log[n].entries
           [] log[n].op = "clear" -> <<>>
           [] OTHER -> BufferAfter(log, n - 1)

\* C25: every buffer operation is made by an event of a group conversation
\* on the buffer keyed by that conversation; what an operation of
\* conversation A reads or finds is what the earlier operations of A left
\* there, and the content of every buffer is what the operations of its own
\* conversation left there; the buffer key of a direct chat is never used.
C25_BuffersKeyedByConversation ==
    /\ \A i \in 1..Len(bufLog) :
          /\ tasks[bufLog[i].msg].event.chat_type = "group"
          /\ tasks[bufLog[i].msg].event.chat_id = bufLog[i].chat
    /\ \A t \in TaskIds : ~IsGroupTask(t) => Len(tasks[t].body) <= 1
    /\ \A c \in Chats :
          LET log == ChatLog(bufLog, c)
          IN  /\ c \notin GroupChats => (log = <<>> /\ chatHistories[c] = <<>>)
              /\ MessageIds(chatHistories[c]) = BufferAfter(log, Len(log))
              /\ \A n \in 1..Len(log) :
                    /\ log[n].op = "build" => log[n].entries = BufferAfter(log, n - 1)
                    /\ log[n].op = "clear" =>
                          (historyLimitOf(cfg) > 0 => log[n].entries = BufferAfter(log, n - 1))
                    /\ log[n].op = "record" =>
                          log[n].entries =
                              IF historyLimitOf(cfg) > 0
                              THEN LastN(Append(BufferAfter(log, n - 1), log[n].msg),
                                         historyLimitOf(cfg))
                              ELSE BufferAfter(log, n - 1)

\* an entry waits in the buffer of g1 while an event of g2 was dispatched
\* and its clear ran
C25_Witness ==
    /\ Len(tasks) = 2
    /\ ChatOf(1) = g1
    /\ ChatOf(2) = g2
    /\ MessageIds(chatHistories[g1]) = <<1>>
    /\ tasks[2].pc = "done"
    /\ \E i \in 1..Len(bufLog) : bufLog[i].op = "clear" /\ bufLog[i].msg = 2


-----------------------------------------------------------------------------
(* C28: the gate and the history buffer *)

\* the event is a group message that lacks a required mention of the bot
LacksRequiredMention(event) ==
    /\ RequiresMention(cfg, event)
    /\ ~checkBotMentioned(event.mentions, botOpenId)

\* event t was appended to a buffer: it is an entry, or a record is logged
Appended(t) ==
    \/ \E c \in Chats : t \in SeqRange(MessageIds(chatHistories[c]))
    \/ \E i \in 1..Len(bufLog) : bufLog[i].op = "record" /\ bufLog[i].msg = t

\* C28: an event is appended to a history buffer only on the buffer-and-drop
\* outcome.  A direct message, a group message that mentions the bot or
\* needs no mention, an accepted event and a silently dropped event are
\* never appended, and as long as no event was buffered every buffer is as
\* it was when the connection started.
C28_GateMutatesOnlyWhenBuffering ==
    /\ \A t \in TaskIds :
          /\ ~LacksRequiredMention(tasks[t].event) => ~Appended(t)
          /\ tasks[t].outcome \in {"accept", "drop"} => ~Appended(t)
    /\ (\A t \in TaskIds : tasks[t].outcome # "buffer") =>
          \A c \in Chats : chatHistories[c] = <<>>

\* a group message that mentions the bot went on to the pipeline and no
\* buffer has changed
C28_Witness ==
    \E t \in TaskIds :
        /\ IsGroupTask(t)
        /\ RequiresMention(cfg, tasks[t].event)
        /\ tasks[t].outcome = "accept"
        /\ "media" \in tasks[t].calls
        /\ historyLimitOf(cfg) > 0
        /\ \A c \in Chats : chatHistories[c] = <<>>

-----------------------------------------------------------------------------
(* C30: the allow-list of a group and the global one *)

ListedByIdOrWildcard(list, event) == HasWildcard(list) \/ ListsId(list, event.open_id)

\* the group's own allow-list, when it has one
OwnAllowList(c, chat) ==
    IF IsDef(OwnGroup(c, chat)) THEN Val(OwnGroup(c, chat)).allowFrom ELSE Undef

\* the list that decides: the group's own when configured, else the global
DecidingList(c, chat) ==
    IF IsDef(OwnAllowList(c, chat)) THEN Val(OwnAllowList(c, chat))
    ELSE OrElse(c.groupAllowFrom, <<>>)

\* C30: under groupPolicy=allowlist the deciding list is the group's own
\* list whenever the group has one, also an empty one, and the global
\* groupAllowFrom only when it has none: a sender the deciding list holds by
\* wildcard or id is admitted, a sender it does not hold at all is dropped,
\* whatever the other list holds.
C30_GroupListOverridesGlobal ==
    \A t \in TaskIds :
        (IsGroupTask(t) /\ cfg.groupPolicy = "allowlist") =>
            LET list == DecidingList(cfg, ChatOf(t))
            IN  /\ ListedByIdOrWildcard(list, tasks[t].event) => tasks[t].outcome # "drop"
                /\ ~SenderListed(list, tasks[t].event) => tasks[t].outcome = "drop"
                /\ list = <<>> => tasks[t].outcome = "drop"

\* the group's own list is empty, the global list admits everybody, and the
\* message is dropped
C30_Witness ==
    \E t \in TaskIds :
        /\ IsGroupTask(t)
        /\ cfg.groupPolicy = "allowlist"
        /\ OwnAllowList(cfg, ChatOf(t)) = Some(<<>>)
        /\ HasWildcard(OrElse(cfg.groupAllowFrom, <<>>))
        /\ tasks[t].outcome = "drop"


-----------------------------------------------------------------------------
(* C27: blank reply fragments *)

IsBlank(text) == \A i \in 1..Len(text) : text[i] \in {" ", "\n"}

\* C27: the deliver call of an empty or whitespace-only fragment returns at
\* once: it sends nothing, reports no failure and leaves the typing
\* indicator (its state, the reactions and the pending start and stop
\* calls) as it was; no send at all is ever made for such a fragment.
C27_BlankFragmentSkipped ==
    [][ /\ (delivered' = delivered + 1 /\ IsBlank(fragments[delivered + 1])) =>
              /\ sent' = sent
              /\ failed' = failed
              /\ delivering' = Undef
              /\ UNCHANGED typingVars
        /\ \A i \in 1..Len(sent') : ~IsBlank(fragments[sent'[i].fragment])
      ]_vars

\* a whitespace-only fragment and an empty one were handed to deliver while
\* the typing reaction was attached
C27_Witness ==
    /\ delivered = 2
    /\ fragments = << <<" ">>, <<>> >>
    /\ IsDef(typingState)
    /\ reactions # {}
    /\ sent = <<>>


-----------------------------------------------------------------------------
(* C26: scenario A *)

\* a direct text message "hello" without mentions and without a quoted
\* parent, under dmPolicy=open and a render mode that is not forced to card
ScenarioA ==
    /\ turnIn.dmPolicy = "open"
    /\ turnIn.message_type = "text"
    /\ turnIn.content.parses
    /\ turnIn.content.text = Some(hello)
    /\ OrElse(turnIn.mentions, <<>>) = <<>>
    /\ ~IsDef(turnIn.parent_id)
    /\ OrElse(turnIn.renderMode, "auto") # "card"

\* C26: scenario A.  The message is accepted, the body handed to the
\* envelope is exactly the text hello, which is the stripped text, and a
\* reply of short plain prose is delivered as exactly one plain-text send
\* that carries the whole reply.
C26_ScenarioA ==
    (IsDef(turnOut) /\ ScenarioA) =>
        /\ Val(turnOut).outcome = "accept"
        /\ Val(turnOut).content = hello
        /\ IsDef(Val(turnOut).body)
        /\ Val(Val(turnOut).body).text = hello
        /\ turnIn.reply = <<"o", "k">> =>
              /\ Len(Val(turnOut).sends) = 1
              /\ Val(turnOut).sends[1].kind = "text"
              /\ Val(turnOut).sends[1].text = <<"o", "k">>

C26_Witness ==
    /\ IsDef(turnOut)
    /\ ScenarioA
    /\ turnIn.reply = <<"o", "k">>
    /\ Len(Val(turnOut).sends) = 1


-----------------------------------------------------------------------------
(* C31: a content payload that is not JSON *)

\* the turn's message carries content that JSON.parse rejects
MalformedContent == ~turnIn.content.parses

\* C31 as worded: whatever the message type, the text of the normalized
\* context of a message whose content is not JSON is the raw payload
C31_NormalizedTextIsRawPayload ==
    (IsDef(turnOut) /\ MalformedContent) => Val(turnOut).content = turnIn.content.raw

\* C31: whatever the message type, decoding content that is not JSON
\* returns the raw payload; the text of the normalized context is that
\* payload after mention stripping, and is the payload itself when the
\* event carries no mentions
C31_DecodingFailsSoft ==
    (IsDef(turnOut) /\ MalformedContent) =>
        /\ parseMessageContent(turnIn.content, turnIn.message_type) = turnIn.content.raw
        /\ Val(turnOut).content = stripBotMention(turnIn.content.raw, turnIn.mentions)
        /\ OrElse(turnIn.mentions, <<>>) = <<>> =>
               Val(turnOut).content = turnIn.content.raw

C31_Witness ==
    /\ IsDef(turnOut)
    /\ MalformedContent
    /\ turnIn.message_type = "post"
    /\ OrElse(turnIn.mentions, <<>>) # <<>>
    /\ Val(turnOut).content # turnIn.content.raw


-----------------------------------------------------------------------------
(* C32: historyLimit 0 *)

\* the connection is configured with historyLimit 0
BufferingOff == cfg.historyLimit = Some(0)

\* the body dispatched for task t is the envelope of its own message alone
CurrentMessageAlone(t) ==
    /\ Len(tasks[t].body) = 1
    /\ tasks[t].body[1].messageId = t
    /\ tasks[t].body[1].text = CtxOf(t).content

\* C32: with historyLimit 0 every record call leaves the buffer of its
\* conversation empty, so every buffer is empty whatever messages arrived,
\* and the body of every dispatched message is the current message alone.
C32_HistoryLimitZeroDisablesBuffering ==
    BufferingOff =>
        /\ \A c \in Chats : chatHistories[c] = <<>>
        /\ \A i \in 1..Len(bufLog) : bufLog[i].op = "record" => bufLog[i].entries = <<>>
        /\ \A t \in TaskIds : tasks[t].body # <<>> => CurrentMessageAlone(t)

C32_Witness ==
    /\ BufferingOff
    /\ hasHistories
    /\ Len(tasks) = 2
    /\ tasks[1].outcome = "buffer"
    /\ \E i \in 1..Len(bufLog) : bufLog[i].op = "record" /\ bufLog[i].msg = 1
    /\ tasks[2].outcome = "accept"
    /\ tasks[2].pc = "done"
    /\ CurrentMessageAlone(2)


-----------------------------------------------------------------------------
(* C33: no history map *)

\* C33: on a connection that was given no history map, no record, build or
\* clear call is made and no buffer holds anything; a group message that
\* lacks the required mention returns from the gate without any further
\* call and without an exception, and the body of every dispatched message
\* is the current message alone.
C33_NoHistoryMap ==
    ~hasHistories =>
        /\ bufLog = <<>>
        /\ \A c \in Chats : chatHistories[c] = <<>>
        /\ \A t \in TaskIds :
              /\ tasks[t].outcome = "buffer" =>
                    /\ tasks[t].pc = "returned"
                    /\ tasks[t].calls = {}
                    /\ tasks[t].body = <<>>
              /\ tasks[t].body # <<>> => CurrentMessageAlone(t)

C33_Witness ==
    /\ ~hasHistories
    /\ historyLimitOf(cfg) > 0
    /\ Len(tasks) = 2
    /\ tasks[1].outcome = "buffer"
    /\ tasks[2].outcome = "accept"
    /\ IsGroupTask(2)
    /\ tasks[2].pc = "done"
    /\ CurrentMessageAlone(2)


-----------------------------------------------------------------------------
(* C34: table conversion and chunking *)

\* the texts of the turn's sends, in the order they were sent
SentTexts == [k \in 1..Len(Val(turnOut).sends) |-> Val(turnOut).sends[k].text]

\* every send of the turn is of the given kind
AllSendsAre(kind) ==
    \A k \in 1..Len(Val(turnOut).sends) : Val(turnOut).sends[k].kind = kind

\* C34: a reply delivered as plain text is sent as the chunks of its
\* converted text (tables converted first, then the text is cut), and a
\* reply delivered as a card is sent as the chunks of the original text.
C34_ConvertThenChunk ==
    (IsDef(turnOut) /\ Val(turnOut).sends # <<>>) =>
        \/ /\ AllSendsAre("text")
           /\ SentTexts = chunkTextWithMode(convertMarkdownTables(turnIn.reply),
                                            TextChunkLimit)
           /\ Concat(SentTexts) = convertMarkdownTables(turnIn.reply)
        \/ /\ AllSendsAre("card")
           /\ SentTexts = chunkTextWithMode(turnIn.reply, TextChunkLimit)
           /\ Concat(SentTexts) = turnIn.reply

C34_Witness ==
    /\ IsDef(turnOut)
    /\ turnIn.reply = smallTable
    /\ turnIn.renderMode = Some("raw")
    /\ Len(Val(turnOut).sends) > 1
    /\ AllSendsAre("text")
    /\ Concat(SentTexts) # turnIn.reply


-----------------------------------------------------------------------------
(* C35: the quoted message *)

\* the fetch of the parent message was made and gave a non-empty content
QuotedAvailable ==
    /\ IsDef(turnIn.parent_id) /\ Truthy(Val(turnIn.parent_id))
    /\ turnIn.fetch.result = "message"
    /\ Truthy(turnIn.fetch.content)

\* there is no parent id, or the fetch threw or resolved to null
QuotedUnavailable ==
    \/ ~IsDef(turnIn.parent_id)
    \/ ~Truthy(Val(turnIn.parent_id))
    \/ turnIn.fetch.result \in {"threw", "null"}

\* C35: for a message that passed the gate, the body of the envelope is the
\* labeled quotation followed by the current text when the parent message was
\* fetched with non-empty content, and the current text alone when there is
\* no parent id or the fetch threw or returned nothing; in each case the
\* message is dispatched.
C35_QuotedMessageBody ==
    (IsDef(turnOut) /\ ~GateReturns(Val(turnOut).outcome)) =>
        /\ IsDef(Val(turnOut).body)
        /\ QuotedAvailable =>
              Val(Val(turnOut).body).text =
                  ReplyingTo \o turnIn.fetch.content \o <<"\"", "]", "\n", "\n">>
                      \o Val(turnOut).content
        /\ QuotedUnavailable => Val(Val(turnOut).body).text = Val(turnOut).content

C35_Witness ==
    /\ IsDef(turnOut)
    /\ IsDef(Val(turnOut).body)
    /\ turnIn.parent_id = Some(idParent)
    /\ turnIn.fetch.result = "threw"
    /\ Val(Val(turnOut).body).text = Val(turnOut).content
    /\ Val(turnOut).sends # <<>>


-----------------------------------------------------------------------------
(* C36: who an envelope is from *)

\* the sender of the message with id m
SenderOf(m) == tasks[m].event.open_id

\* C36: in a group the from of every envelope, of the live message and of
\* each replayed history entry, names the conversation and the sender of the
\* message, envelopes of different senders in one group never carry the
\* same from, and the route of every event of the group is resolved for the
\* group.
C36_GroupFromNamesSender ==
    \A t \in TaskIds :
        IsGroupTask(t) =>
            /\ RoutePeer(CtxOf(t)) = [kind |-> "group", id |-> ChatOf(t)]
            /\ \A k \in 1..Len(tasks[t].body) :
                  LET env == tasks[t].body[k]
                  IN  /\ env.from = ChatOf(t) \o <<":">> \o SenderOf(env.messageId)
                      /\ \A u \in TaskIds : \A j \in 1..Len(tasks[u].body) :
                            (ChatOf(u) = ChatOf(t)
                             /\ SenderOf(tasks[u].body[j].messageId) # SenderOf(env.messageId))
                            => tasks[u].body[j].from # env.from

C36_Witness ==
    /\ Len(tasks) = 2
    /\ IsGroupTask(2)
    /\ Len(tasks[2].body) = 2
    /\ SenderOf(1) # SenderOf(2)
    /\ tasks[2].body[1].messageId = 1
    /\ tasks[2].body[1].from # tasks[2].body[2].from


-----------------------------------------------------------------------------
(* C37: how often a typing reaction is removed *)

\* C37: while a dispatch whose error callback has run is in progress, the
\* delete request for its reaction is issued at most once: no two `stop`
\* calls, started by the error callback or by the idle callback, are
\* awaiting the removal of the same reaction.
C37_RemovedAtMostOnce ==
    (rpc = "dispatching" /\ failed # {}) =>
    \A i, j \in 1..Len(stops) :
        (i # j /\ IsDef(stops[i].reactionId)) => stops[i].reactionId # stops[j].reactionId


-----------------------------------------------------------------------------
(* C38: the bot id probe and the event connection *)

\* the probe of this connection did not give a bot id
ProbeFailed == monitor.probe \in {"notOk", "threw"}

\* C38: no event is handled while the bot id probe is awaited; the bot id
\* every event is handled with is the one the probe left; and after a probe
\* that failed the bot id is unknown for every event, so that a group
\* message counts as mentioning the bot exactly when it mentions anyone: it
\* is dispatched when it carries a mention and buffered when it carries none.
C38_ProbeBeforeEvents ==
    /\ monitor.pc = "probing" => (tasks = <<>> /\ bufLog = <<>>)
    /\ monitor.pc = "listening" => botOpenId = fetchBotOpenId(monitor.probe)
    /\ ProbeFailed =>
          /\ botOpenId = Undef
          /\ \A t \in TaskIds :
                /\ CtxOf(t).mentionedBot <=> tasks[t].event.mentions # <<>>
                /\ tasks[t].outcome = IF tasks[t].event.mentions # <<>> THEN "accept"
                                      ELSE "buffer"

C38_Witness ==
    /\ ProbeFailed
    /\ Len(tasks) = 2
    /\ tasks[1].event.mentions = <<idA>>
    /\ tasks[1].outcome = "accept"
    /\ tasks[1].pc = "done"
    /\ tasks[2].event.mentions = <<>>
    /\ tasks[2].outcome = "buffer"


-----------------------------------------------------------------------------
(* C39: the single and plural fields of the media payload *)

\* C39: in the payload built from the resolved media list, when the list is
\* empty every field is absent; otherwise MediaPaths holds the paths of the
\* list in order, MediaTypes is as long as MediaPaths and its i-th element
\* is the content type of the i-th entry, MediaPath is the first element of
\* MediaPaths and MediaType the first element of MediaTypes.
C39_SingleAndPluralAgree ==
    media.pc = "dispatched" =>
        LET p == media.payload
        IN  IF media.out = <<>>
            THEN p = [MediaPath |-> Undef, MediaType |-> Undef, MediaUrl |-> Undef,
                      MediaPaths |-> Undef, MediaUrls |-> Undef, MediaTypes |-> Undef]
            ELSE /\ p.MediaPaths = Some(OutPaths)
                 /\ p.MediaPath = Some(OutPaths[1])
                 /\ IsDef(p.MediaTypes)
                 /\ Len(Val(p.MediaTypes)) = Len(OutPaths)
                 /\ \A i \in 1..Len(OutPaths) :
                       media.out[i].contentType = Some(Val(p.MediaTypes)[i])
                 /\ p.MediaType = Some(Val(p.MediaTypes)[1])


-----------------------------------------------------------------------------
(* C40: the open-group warning and the gate *)

\* the allow-list the gate would check the sender of task t against admits
\* that sender
PassesAllowList(t) ==
    LET ctx == CtxOf(t)
        groupConfig == resolveFeishuGroupConfig(cfg, ctx.chatId)
        senderAllowFrom ==
            OrElse(IF IsDef(groupConfig) THEN Val(groupConfig).allowFrom ELSE Undef,
                   OrElse(cfg.groupAllowFrom, <<>>))
    IN  resolveFeishuAllowlistMatch(senderAllowFrom, ctx.senderOpenId,
                                    ctx.senderName).allowed

\* C40: the open-group warning is emitted exactly when the gate admits group
\* senders without an allow-list check: under a configuration that gets the
\* warning no group message is dropped, and under one that does not get it
\* every group message that passes the gate comes from a sender its
\* allow-list admits.
C40_WarningMatchesGate ==
    IsDef(warnings) =>
        \A t \in TaskIds :
            IsGroupTask(t) =>
                IF Val(warnings) # <<>>
                THEN tasks[t].outcome # "drop"
                ELSE tasks[t].outcome # "drop" => PassesAllowList(t)

====
